---- MODULE Spec2Model ----
(***************************************************************************)
(* hive: the task store, the pipeline executor (runAuto, autoFixLoop), the *)
(* worker pool (Pool.Run, executeTask), the blocker-answer flow            *)
(* (runAnswer) and the user commands that change work-item status.         *)
(*                                                                         *)
(* Every SQL statement is one atomic step.  A Store method that issues an  *)
(* UPDATE and then calls AddEvent is two statements: the UPDATE is done by *)
(* the caller's action and the INSERT is queued in pend[actor], from where *)
(* Flush executes it as the actor's next statement.  Other actors may run  *)
(* between the two.                                                        *)
(***************************************************************************)
EXTENDS Integers, Sequences, FiniteSets, TLC

\* ---------------------------------------------------------------- bounds
MaxItems == 2       \* rows of the tasks table when items are created by command
PoolTasks == 3      \* children of the epic the worker pool is run on
MaxLoopsCap == 2    \* --max-loops is drawn from 0..MaxLoopsCap
MaxRuns == 1        \* invocations of `hive auto`
MaxCmds == 1        \* other commands typed after the items were created

\* ------------------------------------------------------------- constants
StatusBacklog == "backlog"
StatusInProgress == "in_progress"
StatusBlocked == "blocked"
StatusReview == "review"
StatusDone == "done"
StatusFailed == "failed"
StatusCancelled == "cancelled"
KindEpic == "epic"
KindTask == "task"

\* Threads of control: the `hive auto` process, the `hive answer` and `hive fix` processes,
\* the user's other commands, and the pool's goroutines (one per task index).
AutoProc == "auto"
AnswerProc == "answer"
FixProc == "fix"
UserProc == "user"
WorkerName(i) == <<"w1", "w2", "w3", "w4", "w5">>[i]
Workers == {WorkerName(i) : i \in 1..PoolTasks}
ItemIds == 1..(IF MaxItems > PoolTasks THEN MaxItems ELSE PoolTasks + 1)
FixActors == {AutoProc, AnswerProc, FixProc} \cup Workers
Actors == FixActors \cup {UserProc}

CoderName == "coder"
ReviewerName == "reviewer"
PMName == "pm"
ArchName == "architect"

\* What a Runner invocation can come back with, as the callers tell them apart.
CoderOutcomes == {"err", "blocked", "exit", "ok"}
ReviewOutcomes == {"err", "APPROVE", "REJECT", "none"}
Question == "q"     \* the text after BLOCKED: (non-empty, ParseBlocked)

\* config.yaml as a command loads it: which roles have an agent.  A coder
\* is always configured; PM, reviewer and architect may be missing.
Configs == [pm : BOOLEAN, coder : {TRUE}, reviewer : BOOLEAN, arch : BOOLEAN]

\* runAuto resolves the roles pm, coder and reviewer; runAnswer resolves
\* architect, coder and reviewer.
AutoConfigs == {c \in Configs : ~c.arch}
AnswerConfigs == {c \in Configs : ~c.pm}

\* No command is running: no configuration is loaded.  Commands that run
\* at the same time read the same file, so the configuration stays loaded
\* until the last of them returns.
NoConfig == [pm |-> FALSE, coder |-> FALSE, reviewer |-> FALSE, arch |-> FALSE]

VARIABLES
  tasks,          \* tasks table: sequence of rows, row id = index
  events,         \* events table, per task_id: sequence of rows
  artifacts,      \* artifacts table, per task_id: sequence of types
  reviews,        \* reviews table, per task_id: sequence of verdicts
  pipeline_runs,  \* pipeline_runs table: sequence of rows, id = index
  pend,           \* per actor: INSERTs the current Store call has yet to issue
  cfg,            \* the configuration the running command has loaded
  auto,           \* the `hive auto` process (runAuto)
  fl,             \* per fix-loop actor: the position in autoFixLoop/executeTask
  usr,            \* the user's command in progress
  sem,            \* Pool.runParallel: occupied slots of the semaphore channel
  results,        \* Pool.runParallel: the results slice
  runsLeft,       \* budget of pipeline invocations
  cmdsLeft        \* budget of other commands

vars ==
  <<tasks, events, artifacts, reviews, pipeline_runs, pend, cfg, auto, fl,
    usr, sem, results, runsLeft, cmdsLeft>>

\* ------------------------------------------------------------ the Store
Ids == 1..Len(tasks)

NewRow(kind, parentID) ==
  [kind |-> kind, parent_id |-> parentID, status |-> StatusBacklog,
   blocked_reason |-> "", assigned_agent |-> "", git_branch |-> ""]

Row(tbl, id, agent, type, content) ==
  [tbl |-> tbl, id |-> id, agent |-> agent, type |-> type, content |-> content]

\* AddEvent(taskID, agent, eventType, content): the INSERT it issues.
AddEvent(id, agent, type, content) == Row("events", id, agent, type, content)

\* AddArtifact(taskID, artifactType, filePath): the INSERT it issues.
AddArtifact(id, type) == Row("artifacts", id, "", type, "")

\* AddReview(taskID, reviewer, verdict, comments): INSERT, then AddEvent.
AddReview(id, reviewer, verdict) ==
  <<Row("reviews", id, reviewer, verdict, ""),
    AddEvent(id, reviewer, "reviewed", verdict)>>

\* UpdateTaskStatus: the UPDATE statement ...
UpdateTaskStatusRow(t, id, status) ==
  IF id \in DOMAIN t THEN [t EXCEPT ![id].status = status] ELSE t

\* ... and the AddEvent call that follows it.
UpdateTaskStatusEvent(id, status) == AddEvent(id, "", "status_changed", status)

\* BlockTask: UPDATE status and blocked_reason, then AddEvent.
BlockTaskRow(t, id, reason) ==
  IF id \in DOMAIN t
  THEN [t EXCEPT ![id].status = StatusBlocked, ![id].blocked_reason = reason]
  ELSE t

BlockTaskEvent(id, reason) == AddEvent(id, "", "blocked", reason)

\* An unblock that leaves the question in blocked_reason.
UnblockTaskRowKeepsReason(t, id) == UpdateTaskStatusRow(t, id, StatusBacklog)

\* UnblockTask: UPDATE status = backlog, blocked_reason = '', then AddEvent.
UnblockTaskRow(t, id) ==
  IF id \in DOMAIN t
  THEN [t EXCEPT ![id].status = StatusBacklog, ![id].blocked_reason = ""]
  ELSE t

UnblockTaskEvent(id, answer) == AddEvent(id, "user", "unblocked", answer)

\* AssignTask: UPDATE assigned_agent, role, then AddEvent.
AssignTaskRow(t, id, agent) ==
  IF id \in DOMAIN t THEN [t EXCEPT ![id].assigned_agent = agent] ELSE t

AssignTaskEvent(id, agent) == AddEvent(id, agent, "assigned", agent)

\* An UPDATE of git_branch without its WHERE clause.
SetGitBranchEverywhere(t, id, branch) ==
  [i \in DOMAIN t |-> [t[i] EXCEPT !.git_branch = branch]]

\* SetGitBranch: one UPDATE, no event.
SetGitBranch(t, id, branch) ==
  IF id \in DOMAIN t THEN [t EXCEPT ![id].git_branch = branch] ELSE t

\* A reset that returns only the in_progress rows to backlog.
ResetInProgressTasks(t, epicID) ==
  [i \in DOMAIN t |->
    IF t[i].parent_id = epicID /\ t[i].status = StatusInProgress
    THEN [t[i] EXCEPT !.status = StatusBacklog]
    ELSE t[i]]

\* ResetStaleTasks: one UPDATE over the epic's children, no event.
ResetStaleTasks(t, epicID) ==
  [i \in DOMAIN t |->
    IF t[i].parent_id = epicID /\ t[i].status \in {StatusInProgress, StatusReview}
    THEN [t[i] EXCEPT !.status = StatusBacklog]
    ELSE t[i]]

\* ListTasksByEpic: ids of the rows with parent_id = epicID, ORDER BY id.
RECURSIVE ChildrenFrom(_, _, _)
ChildrenFrom(t, epicID, i) ==
  IF i > Len(t) THEN <<>>
  ELSE (IF t[i].parent_id = epicID THEN <<i>> ELSE <<>>)
       \o ChildrenFrom(t, epicID, i + 1)

ListTasksByEpic(t, epicID) == ChildrenFrom(t, epicID, 1)

\* StartPipelineRun: INSERT a running row.
StartPipelineRun(runs, epicID, maxLoops, parallel) ==
  Append(runs, [epic_id |-> epicID, status |-> "running",
                max_loops |-> maxLoops, parallel |-> parallel])

\* EndPipelineRun: UPDATE status WHERE id = runID.
EndPipelineRun(runs, runID, status) ==
  IF runID \in DOMAIN runs THEN [runs EXCEPT ![runID].status = status] ELSE runs

\* GetActivePipelineRun: the highest id of a running row of the epic, 0 if none.
GetActivePipelineRun(runs, epicID) ==
  LET R == {r \in DOMAIN runs : runs[r].epic_id = epicID /\ runs[r].status = "running"}
  IN IF R = {} THEN 0 ELSE CHOOSE r \in R : \A q \in R : q <= r

\* The statement an actor issues next when its Store call still has INSERTs
\* to make: the head of pend[a] goes into its table.
Idle(a) == pend[a] = <<>>

\* The user's shell: commands are typed one at a time, the next one when
\* the previous process has exited.
ShellFree ==
  /\ auto.pc = "idle" /\ usr.pc = "idle"
  /\ fl[AnswerProc].pc = "off" /\ fl[FixProc].pc = "off"
  /\ \A a \in Actors : Idle(a)

\* The items are created by hand before the first other command, or later
\* by the planner.
Setup == runsLeft = MaxRuns /\ cmdsLeft = MaxCmds

Enqueue(a, rows) == pend' = [pend EXCEPT ![a] = @ \o rows]

Flush(a) ==
  /\ pend[a] # <<>>
  /\ LET r == Head(pend[a]) IN
       /\ events' = IF r.tbl = "events"
                    THEN [events EXCEPT ![r.id] =
                            Append(@, [agent |-> r.agent, type |-> r.type,
                                       content |-> r.content])]
                    ELSE events
       /\ artifacts' = IF r.tbl = "artifacts"
                       THEN [artifacts EXCEPT ![r.id] = Append(@, r.type)]
                       ELSE artifacts
       /\ reviews' = IF r.tbl = "reviews"
                     THEN [reviews EXCEPT ![r.id] = Append(@, r.type)]
                     ELSE reviews
  /\ pend' = [pend EXCEPT ![a] = Tail(@)]
  /\ UNCHANGED <<tasks, pipeline_runs, cfg, auto, fl, usr, sem, results,
                 runsLeft, cmdsLeft>>

\* ------------------------------------------------------------- fix loop
\* Directories are paths, as sequences of their parts: the directory the
\* command runs in, and git.WorktreePath(baseDir, taskID).
WorkDir == <<".">>
WorktreePath(baseDir, taskID) == baseDir \o <<".hive", "worktrees", taskID>>

NoLoop ==
  [pc |-> "off", fn |-> "", task |-> 0, iter |-> 0, maxLoops |-> 0, out |-> "",
   result |-> "", coderCalls |-> 0, reviewerCalls |-> 0, dir |-> <<>>]

\* The frame of a fix loop entered on task id by fn (autoFixLoop,
\* executeTask or runFix): with no reviewer configured autoFixLoop takes the
\* runCoderOnce path and executeTask the runCoder path.
EnterLoop(fn, id, maxLoops) ==
  [NoLoop EXCEPT !.pc = IF cfg.reviewer THEN "iter" ELSE "once", !.fn = fn,
                 !.task = id, !.iter = IF cfg.reviewer THEN 1 ELSE 0,
                 !.maxLoops = maxLoops, !.dir = WorkDir]

Returned(a) == fl[a].pc = "ret" /\ Idle(a)

\* One statement of the running loop: UPDATE the task's status, queue the
\* event of UpdateTaskStatus and whatever AddEvent calls follow, move on.
SetStatus(a, status, more, pc, result) ==
  /\ tasks' = UpdateTaskStatusRow(tasks, fl[a].task, status)
  /\ Enqueue(a, <<UpdateTaskStatusEvent(fl[a].task, status)>> \o more)
  /\ fl' = [fl EXCEPT ![a].pc = pc, ![a].result = result]

SetBlocked(a) ==
  /\ tasks' = BlockTaskRow(tasks, fl[a].task, Question)
  /\ Enqueue(a, <<BlockTaskEvent(fl[a].task, Question)>>)
  /\ fl' = [fl EXCEPT ![a].pc = "ret", ![a].result = "blocked"]

\* The for loop's head with the status written once the loop is exhausted.
autoFixLoopIterTo(a, exhausted) ==
  /\ fl[a].pc = "iter" /\ Idle(a)
  /\ IF fl[a].iter <= fl[a].maxLoops
     THEN SetStatus(a, StatusInProgress, <<>>, "coder", "")
     ELSE SetStatus(a, exhausted, <<>>, "ret", "failed")
  /\ UNCHANGED <<events, artifacts, reviews, pipeline_runs, cfg, auto, usr,
                 sem, results, runsLeft, cmdsLeft>>

\* A loop that leaves an exhausted task in backlog.
autoFixLoopIterBacklog(a) == autoFixLoopIterTo(a, StatusBacklog)

\* autoFixLoop, top of the for loop: the loop condition, the re-fetch and
\* UpdateTaskStatus(in_progress); after the loop, UpdateTaskStatus(failed).
autoFixLoopIter(a) == autoFixLoopIterTo(a, StatusFailed)

\* autoFixLoop: coderRunner.Run and what follows up to the next UPDATE.
autoFixLoopCoder(a) ==
  /\ fl[a].pc = "coder" /\ Idle(a)
  /\ \E out \in CoderOutcomes :
       IF out = "err"
       THEN /\ tasks' = UpdateTaskStatusRow(tasks, fl[a].task, StatusFailed)
            /\ Enqueue(a, <<UpdateTaskStatusEvent(fl[a].task, StatusFailed)>>)
            /\ fl' = [fl EXCEPT ![a].pc = "ret", ![a].result = "failed",
                                ![a].coderCalls = @ + 1]
       ELSE /\ tasks' = tasks
            /\ Enqueue(a, <<AddArtifact(fl[a].task, "code"),
                            AddEvent(fl[a].task, CoderName, "agent_output", "preview")>>)
            /\ fl' = [fl EXCEPT ![a].pc = "coded", ![a].out = out,
                                ![a].coderCalls = @ + 1]
  /\ UNCHANGED <<events, artifacts, reviews, pipeline_runs, cfg, auto, usr,
                 sem, results, runsLeft, cmdsLeft>>

\* autoFixLoop: ParseBlocked, the exit code, UpdateTaskStatus(review).
autoFixLoopCoded(a) ==
  /\ fl[a].pc = "coded" /\ Idle(a)
  /\ CASE fl[a].out = "blocked" -> SetBlocked(a)
       [] fl[a].out = "exit" -> SetStatus(a, StatusFailed, <<>>, "ret", "failed")
       [] OTHER -> SetStatus(a, StatusReview, <<>>, "reviewer", "")
  /\ UNCHANGED <<events, artifacts, reviews, pipeline_runs, cfg, auto, usr,
                 sem, results, runsLeft, cmdsLeft>>

\* autoFixLoop: reviewerRunner.Run, the review artifact, ParseReview and the
\* INSERTs of the verdict's case that come before its UPDATE.  A reviewer
\* error continues the loop; in runFix it returns the error.
autoFixLoopReviewer(a) ==
  /\ fl[a].pc = "reviewer" /\ Idle(a)
  /\ \E v \in ReviewOutcomes :
       CASE v = "err" ->
              /\ pend' = pend
              /\ fl' = IF fl[a].fn = "runFix"
                       THEN [fl EXCEPT ![a].pc = "ret", ![a].result = "error",
                                       ![a].reviewerCalls = @ + 1]
                       ELSE [fl EXCEPT ![a].pc = "iter", ![a].iter = @ + 1,
                                       ![a].reviewerCalls = @ + 1]
         [] v = "APPROVE" ->
              /\ Enqueue(a, <<AddArtifact(fl[a].task, "review")>>
                            \o AddReview(fl[a].task, ReviewerName, "approve"))
              /\ fl' = [fl EXCEPT ![a].pc = "verdict", ![a].out = v,
                                  ![a].reviewerCalls = @ + 1]
         [] v = "REJECT" ->
              /\ Enqueue(a, <<AddArtifact(fl[a].task, "review")>>
                            \o AddReview(fl[a].task, ReviewerName, "reject"))
              /\ fl' = [fl EXCEPT ![a].pc = "verdict", ![a].out = v,
                                  ![a].reviewerCalls = @ + 1]
         [] OTHER ->
              /\ Enqueue(a, <<AddArtifact(fl[a].task, "review"),
                              AddEvent(fl[a].task, ReviewerName, "reviewed",
                                       "No clear verdict")>>)
              /\ fl' = [fl EXCEPT ![a].pc = "iter", ![a].iter = @ + 1,
                                  ![a].reviewerCalls = @ + 1]
  /\ UNCHANGED <<tasks, events, artifacts, reviews, pipeline_runs, cfg, auto,
                 usr, sem, results, runsLeft, cmdsLeft>>

\* executeTask after APPROVE: a task that is not isolated in a worktree is
\* committed in place when its directory is a git repository.  (The
\* sequential loops commit too; theirs is the only thread of the process.)
CommitsInPlace(a) ==
  fl[a].fn = "executeTask" /\ fl[a].dir = WorkDir /\ auto.git

\* executeTask: safety.CommitAll(msg) in workDir comes back.
executeTaskCommit(a) ==
  /\ fl[a].pc = "commit" /\ Idle(a)
  /\ fl' = [fl EXCEPT ![a].pc = "ret"]
  /\ UNCHANGED <<tasks, events, artifacts, reviews, pipeline_runs, pend, cfg,
                 auto, usr, sem, results, runsLeft, cmdsLeft>>

\* autoFixLoop: the UPDATE of case APPROVE (done, return) or REJECT (backlog,
\* the reviewed event with the comments, next iteration).  runFix writes
\* the comments only when another iteration follows.
autoFixLoopVerdict(a) ==
  /\ fl[a].pc = "verdict" /\ Idle(a)
  /\ IF fl[a].out = "APPROVE"
     THEN SetStatus(a, StatusDone, <<>>,
                    IF CommitsInPlace(a) THEN "commit" ELSE "ret", "done")
     ELSE /\ tasks' = UpdateTaskStatusRow(tasks, fl[a].task, StatusBacklog)
          /\ Enqueue(a, <<UpdateTaskStatusEvent(fl[a].task, StatusBacklog)>> \o
                        (IF fl[a].fn = "runFix" /\ fl[a].iter >= fl[a].maxLoops
                         THEN <<>>
                         ELSE <<AddEvent(fl[a].task, ReviewerName, "reviewed",
                                         "REJECTED")>>))
          /\ fl' = [fl EXCEPT ![a].pc = "iter", ![a].iter = @ + 1]
  /\ UNCHANGED <<events, artifacts, reviews, pipeline_runs, cfg, auto, usr,
                 sem, results, runsLeft, cmdsLeft>>

\* runCoderOnce: UpdateTaskStatus(in_progress).
runCoderOnceStart(a) ==
  /\ fl[a].pc = "once" /\ Idle(a)
  /\ SetStatus(a, StatusInProgress, <<>>, "once_run", "")
  /\ UNCHANGED <<events, artifacts, reviews, pipeline_runs, cfg, auto, usr,
                 sem, results, runsLeft, cmdsLeft>>

\* runCoderOnce: runner.Run; an error fails the task, otherwise the
\* agent_output event is written (no artifact).  The pool's runCoder
\* writes no event.
runCoderOnceRun(a) ==
  /\ fl[a].pc = "once_run" /\ Idle(a)
  /\ \E out \in CoderOutcomes :
       IF out = "err"
       THEN /\ tasks' = UpdateTaskStatusRow(tasks, fl[a].task, StatusFailed)
            /\ Enqueue(a, <<UpdateTaskStatusEvent(fl[a].task, StatusFailed)>>)
            /\ fl' = [fl EXCEPT ![a].pc = "ret", ![a].result = "failed",
                                ![a].coderCalls = @ + 1]
       ELSE /\ tasks' = tasks
            /\ Enqueue(a, IF fl[a].fn = "executeTask" THEN <<>>
                           ELSE <<AddEvent(fl[a].task, CoderName,
                                           "agent_output", "preview")>>)
            /\ fl' = [fl EXCEPT ![a].pc = "once_done", ![a].out = out,
                                ![a].coderCalls = @ + 1]
  /\ UNCHANGED <<events, artifacts, reviews, pipeline_runs, cfg, auto, usr,
                 sem, results, runsLeft, cmdsLeft>>

\* runCoderOnce: ParseBlocked and the exit code; on "done" autoFixLoop
\* itself calls UpdateTaskStatus(done) and returns "done".
runCoderOnceDone(a) ==
  /\ fl[a].pc = "once_done" /\ Idle(a)
  /\ CASE fl[a].out = "blocked" -> SetBlocked(a)
       [] fl[a].out = "exit" -> SetStatus(a, StatusFailed, <<>>, "ret", "failed")
       [] OTHER -> SetStatus(a, StatusDone, <<>>, "ret", "done")
  /\ UNCHANGED <<events, artifacts, reviews, pipeline_runs, cfg, auto, usr,
                 sem, results, runsLeft, cmdsLeft>>

\* -------------------------------------------------------------- runAuto
NoAuto ==
  [pc |-> "idle", id |-> 0, kind |-> "", status |-> "", assigned |-> "",
   skipPlan |-> FALSE, maxLoops |-> 0, parallel |-> 0, runID |-> 0,
   out |-> "", n |-> 0, subtasks |-> <<>>, i |-> 0,
   completed |-> 0, failed |-> 0, blocked |-> 0,
   git |-> FALSE, cli |-> FALSE, useWorktree |-> FALSE, resumed |-> 0,
   worktrees |-> {}, removed |-> 0, merges |-> {}, resultIDs |-> <<>>]

\* A store.Task value as the pipeline holds it: a copy of the row.
Snapshot(t, id) ==
  [ID |-> id, Status |-> t[id].status, AssignedAgent |-> t[id].assigned_agent]

\* *task, the value GetTask returned when runAuto started.
AutoTask ==
  [ID |-> auto.id, Status |-> auto.status, AssignedAgent |-> auto.assigned]

\* git.BranchName(epicID): "hive/epic-<id>".
BranchName(epicID) ==
  <<"hive/epic-1", "hive/epic-2", "hive/epic-3", "hive/epic-4">>[epicID]

\* hive auto <id> [--skip-plan] [--max-loops n] [--parallel p]: the flags.
runAutoCmd(id, skipPlan, maxLoops, parallel) ==
  /\ ShellFree /\ runsLeft > 0 /\ id \in Ids
  /\ auto' = [NoAuto EXCEPT !.pc = "begin", !.id = id, !.skipPlan = skipPlan,
                            !.maxLoops = maxLoops, !.parallel = parallel]
  /\ runsLeft' = runsLeft - 1
  /\ cfg' \in AutoConfigs
  /\ UNCHANGED <<tasks, events, artifacts, reviews, pipeline_runs,
                 pend, fl, usr, sem, results, cmdsLeft>>

\* runAuto up to the safety branch: GetTask, the warning about an active
\* run (no effect), and SetGitBranch when the epic has no branch yet and
\* one could be created.
runAutoBegin ==
  /\ auto.pc = "begin" /\ auto.id \in Ids
  /\ LET id == auto.id IN
     /\ \E branched \in BOOLEAN :
          /\ branched => tasks[id].kind = KindEpic /\ tasks[id].git_branch = ""
          /\ tasks' = IF branched THEN SetGitBranch(tasks, id, BranchName(id)) ELSE tasks
     /\ auto' = [auto EXCEPT !.pc = "startrun", !.kind = tasks[id].kind,
                   !.status = tasks[id].status,
                   !.assigned = tasks[id].assigned_agent]
  /\ UNCHANGED <<events, artifacts, reviews, pipeline_runs, pend, cfg, fl,
                 usr, sem, results, runsLeft, cmdsLeft>>

\* runAuto: StartPipelineRun for an epic (pipelineRunID stays 0 for a task).
runAutoStartRun ==
  /\ auto.pc = "startrun"
  /\ IF auto.kind = KindEpic
     THEN /\ pipeline_runs' = StartPipelineRun(pipeline_runs, auto.id,
                                               auto.maxLoops, auto.parallel)
          /\ auto' = [auto EXCEPT !.pc = "plan", !.runID = Len(pipeline_runs) + 1]
     ELSE /\ pipeline_runs' = pipeline_runs
          /\ auto' = [auto EXCEPT !.pc = "plan"]
  /\ UNCHANGED <<tasks, events, artifacts, reviews, pend, cfg, fl, usr, sem,
                 results, runsLeft, cmdsLeft>>

RECURSIVE Snapshots(_, _)
Snapshots(t, ids) ==
  IF ids = <<>> THEN <<>>
  ELSE <<Snapshot(t, Head(ids))>> \o Snapshots(t, Tail(ids))

\* runAuto step 1.  Without --skip-plan: no PM means the item itself is the
\* one subtask, otherwise autoPlan runs the PM (an error ends runAuto) and
\* saves the plan artifact.  With --skip-plan: ListTasksByEpic, and the
\* item itself when it has no children.
runAutoPlan ==
  /\ auto.pc = "plan"
  /\ IF auto.skipPlan
     THEN LET kids == ListTasksByEpic(tasks, auto.id) IN
          /\ auto' = [auto EXCEPT !.pc = "assign", !.i = 1,
                        !.subtasks = IF kids = <<>> THEN <<AutoTask>>
                                     ELSE Snapshots(tasks, kids)]
          /\ pend' = pend
     ELSE IF ~cfg.pm
     THEN /\ auto' = [auto EXCEPT !.pc = "assign", !.i = 1,
                                  !.subtasks = <<AutoTask>>]
          /\ pend' = pend
     ELSE \E out \in {"err", "blocked", "subtasks"} :
            IF out = "err"
            THEN /\ auto' = [auto EXCEPT !.pc = "exit"]
                 /\ pend' = pend
            ELSE /\ auto' = [auto EXCEPT !.pc = "planned", !.out = out]
                 /\ Enqueue(AutoProc, <<AddArtifact(auto.id, "plan")>>)
  /\ UNCHANGED <<tasks, events, artifacts, reviews, pipeline_runs, cfg, fl,
                 usr, sem, results, runsLeft, cmdsLeft>>

\* An autoPlan that blocks the item on a BLOCKED answer and still hands
\* the item to the coder.
autoPlanParsedGoesOn ==
  /\ auto.pc = "planned" /\ Idle(AutoProc)
  /\ IF auto.out = "blocked"
     THEN /\ tasks' = BlockTaskRow(tasks, auto.id, Question)
          /\ Enqueue(AutoProc, <<BlockTaskEvent(auto.id, Question)>>)
          /\ auto' = [auto EXCEPT !.pc = "assign", !.i = 1,
                                  !.subtasks = <<AutoTask>>]
     ELSE /\ \E n \in 0..(MaxItems - Len(tasks)) :
               auto' = IF n = 0
                       THEN [auto EXCEPT !.pc = "assign", !.i = 1,
                                         !.subtasks = <<AutoTask>>]
                       ELSE [auto EXCEPT !.pc = "create", !.n = n]
          /\ UNCHANGED <<tasks, pend, runsLeft>>
  /\ UNCHANGED <<events, artifacts, reviews, pipeline_runs, cfg, fl, usr,
                 sem, results, runsLeft, cmdsLeft>>

\* autoPlan after the artifact: ParseBlocked blocks the item and stops the
\* pipeline; otherwise ParseSubtasks yields n titles (none: the item itself).
autoPlanParsed ==
  /\ auto.pc = "planned" /\ Idle(AutoProc)
  /\ IF auto.out = "blocked"
     THEN /\ tasks' = BlockTaskRow(tasks, auto.id, Question)
          /\ Enqueue(AutoProc, <<BlockTaskEvent(auto.id, Question)>>)
          /\ auto' = [auto EXCEPT !.pc = "exit"]
     ELSE /\ \E n \in 0..(MaxItems - Len(tasks)) :
               auto' = IF n = 0
                       THEN [auto EXCEPT !.pc = "assign", !.i = 1,
                                         !.subtasks = <<AutoTask>>]
                       ELSE [auto EXCEPT !.pc = "create", !.n = n]
          /\ UNCHANGED <<tasks, pend, runsLeft>>
  /\ UNCHANGED <<events, artifacts, reviews, pipeline_runs, cfg, fl, usr,
                 sem, results, runsLeft, cmdsLeft>>

\* createItem: the INSERT into tasks; the "created" event follows.
createItem(t, kind, parentID) == Append(t, NewRow(kind, parentID))

createItemEvent(id) == AddEvent(id, "", "created", "created")

\* autoPlan: s.CreateTask for the next parsed subtask (a failed INSERT is
\* skipped), and after the last one the "planned" event.
autoPlanCreate ==
  /\ auto.pc = "create" /\ Idle(AutoProc)
  /\ IF auto.n > 0 /\ Len(tasks) < MaxItems
     THEN /\ tasks' = createItem(tasks, KindTask, auto.id)
          /\ Enqueue(AutoProc, <<createItemEvent(Len(tasks) + 1)>>)
          /\ auto' = [auto EXCEPT !.n = @ - 1,
                        !.subtasks = Append(@, Snapshot(tasks', Len(tasks) + 1))]
     ELSE /\ tasks' = tasks
          /\ Enqueue(AutoProc, <<AddEvent(auto.id, PMName, "planned", "planned")>>)
          /\ auto' = [auto EXCEPT !.pc = "assign", !.i = 1]
  /\ UNCHANGED <<events, artifacts, reviews, pipeline_runs, cfg, fl, usr,
                 sem, results, runsLeft, cmdsLeft>>

\* runAuto step 2: AssignTask for each subtask that has no agent yet.
runAutoAssign ==
  /\ auto.pc = "assign" /\ Idle(AutoProc)
  /\ IF auto.i > Len(auto.subtasks)
     THEN /\ auto' = [auto EXCEPT !.pc = "work", !.i = 1]
          /\ UNCHANGED <<tasks, pend, runsLeft>>
     ELSE LET st == auto.subtasks[auto.i] IN
          IF st.AssignedAgent = "" /\ cfg.coder
          THEN /\ tasks' = AssignTaskRow(tasks, st.ID, CoderName)
               /\ Enqueue(AutoProc, <<AssignTaskEvent(st.ID, CoderName)>>)
               /\ auto' = [auto EXCEPT !.i = @ + 1,
                             !.subtasks[auto.i].AssignedAgent = CoderName]
          ELSE /\ auto' = [auto EXCEPT !.i = @ + 1]
               /\ UNCHANGED <<tasks, pend, runsLeft>>
  /\ UNCHANGED <<events, artifacts, reviews, pipeline_runs, cfg, fl, usr,
                 sem, results, runsLeft, cmdsLeft>>

UsePool == auto.parallel > 1 /\ Len(auto.subtasks) > 1

\* runAuto step 3, sequential branch: the checks on the subtask's copy
\* (done, blocked, no agent) and the call of autoFixLoop.
runAutoWork ==
  /\ auto.pc = "work" /\ Idle(AutoProc) /\ ~UsePool
  /\ IF auto.i > Len(auto.subtasks)
     THEN /\ auto' = [auto EXCEPT !.pc = "summary"]
          /\ fl' = fl
     ELSE LET st == auto.subtasks[auto.i] IN
          CASE st.Status = StatusDone ->
                 /\ auto' = [auto EXCEPT !.i = @ + 1, !.completed = @ + 1]
                 /\ fl' = fl
            [] st.Status = StatusBlocked ->
                 /\ auto' = [auto EXCEPT !.i = @ + 1, !.blocked = @ + 1]
                 /\ fl' = fl
            [] st.Status \notin {StatusDone, StatusBlocked} /\ st.AssignedAgent = "" ->
                 /\ auto' = [auto EXCEPT !.i = @ + 1]
                 /\ fl' = fl
            [] OTHER ->
                 /\ auto' = [auto EXCEPT !.pc = "fixing"]
                 /\ fl' = [fl EXCEPT ![AutoProc] = EnterLoop("autoFixLoop", st.ID, auto.maxLoops)]
  /\ UNCHANGED <<tasks, events, artifacts, reviews, pipeline_runs, pend, cfg,
                 usr, sem, results, runsLeft, cmdsLeft>>

\* runAuto step 3: the switch on autoFixLoop's result.
runAutoTally ==
  /\ auto.pc = "fixing" /\ Returned(AutoProc)
  /\ auto' = [auto EXCEPT !.pc = "work", !.i = @ + 1,
                !.completed = IF fl[AutoProc].result = "done" THEN @ + 1 ELSE @,
                !.blocked = IF fl[AutoProc].result = "blocked" THEN @ + 1 ELSE @,
                !.failed = IF fl[AutoProc].result \notin {"done", "blocked"}
                           THEN @ + 1 ELSE @]
  /\ fl' = [fl EXCEPT ![AutoProc] = NoLoop]
  /\ UNCHANGED <<tasks, events, artifacts, reviews, pipeline_runs, pend, cfg,
                 usr, sem, results, runsLeft, cmdsLeft>>

\* ---------------------------------------------------------- worker pool
\* runAuto step 3, parallel branch: worker.NewPool and, in Pool.Run ->
\* runParallel, the semaphore channel and the results slice.  NewPool
\* uses worktrees when the epic has a branch and the directory is a git
\* repository; the coder's mode (cli or api) comes from config.yaml.
runAutoPool ==
  /\ auto.pc = "work" /\ Idle(AutoProc) /\ UsePool
  /\ \E git \in BOOLEAN, cli \in BOOLEAN :
       auto' = [auto EXCEPT !.pc = "pool", !.i = 1, !.git = git, !.cli = cli,
                  !.useWorktree = (tasks[auto.id].git_branch # "" /\ git),
                  !.resultIDs = [k \in 1..Len(auto.subtasks) |-> 0]]
  /\ sem' = 0
  /\ results' = [k \in 1..Len(auto.subtasks) |-> ""]
  /\ UNCHANGED <<tasks, events, artifacts, reviews, pipeline_runs, pend, cfg,
                 fl, usr, runsLeft, cmdsLeft>>

\* The goroutine's taskWorkDir: with worktrees in use and a cli coder,
\* the task's worktree if AddWorktree succeeded; the main directory if it
\* failed, and in every other case.
TaskWorkDir(taskID, added) ==
  IF auto.useWorktree /\ auto.cli /\ added
  THEN WorktreePath(WorkDir, taskID) ELSE WorkDir

\* One turn of runParallel's for loop with a semaphore of the given
\* capacity.
runParallelSem(capacity) ==
  /\ auto.pc = "pool" /\ auto.i <= Len(auto.subtasks)
  /\ LET i == auto.i
         st == auto.subtasks[i]
     IN CASE st.Status = StatusDone ->
               /\ results' = [results EXCEPT ![i] = "done"]
               /\ UNCHANGED <<sem, fl>>
          [] st.Status = StatusBlocked ->
               /\ results' = [results EXCEPT ![i] = "blocked"]
               /\ UNCHANGED <<sem, fl>>
          [] st.Status \notin {StatusDone, StatusBlocked} /\ st.AssignedAgent = "" ->
               /\ results' = [results EXCEPT ![i] = "failed"]
               /\ UNCHANGED <<sem, fl>>
          [] OTHER ->
               /\ sem < capacity
               /\ sem' = sem + 1
               /\ \E added \in BOOLEAN :
                    fl' = [fl EXCEPT ![WorkerName(i)] =
                             [EnterLoop("executeTask", st.ID, auto.maxLoops)
                                EXCEPT !.dir = TaskWorkDir(st.ID, added)]]
               /\ results' = results
  /\ auto' = [auto EXCEPT !.i = @ + 1,
                !.worktrees =
                   IF fl'[WorkerName(auto.i)].dir \notin {WorkDir, <<>>}
                   THEN @ \cup {auto.subtasks[auto.i].ID} ELSE @,
                !.resultIDs =
                   IF results'[auto.i] # ""
                   THEN [@ EXCEPT ![auto.i] = auto.subtasks[auto.i].ID] ELSE @]
  /\ UNCHANGED <<tasks, events, artifacts, reviews, pipeline_runs, pend, cfg,
                 usr, runsLeft, cmdsLeft>>

\* A semaphore that never fills.
runParallelUnbounded == runParallelSem(PoolTasks + 1)

\* runParallel, one turn of the for loop over the task copies: done,
\* blocked and unassigned tasks get their result at once; any other task
\* takes a slot of the semaphore (the send blocks while maxWorkers slots
\* are taken) and its goroutine starts executeTask.
runParallel == runParallelSem(auto.parallel)

\* p.mu is held by the goroutine that is inside MergeWorktreeChanges.
Merging == {w \in Workers : fl[w].pc = "merge"}

\* usingWorktree && r.Status == "done".
MergesBack(w) == fl[w].dir # WorkDir /\ fl[w].result = "done"

\* The goroutine of task index i after executeTask returned done in a
\* worktree: p.mu.Lock() and the call of MergeWorktreeChanges (commit in the
\* worktree, cherry-pick in the main directory).
runParallelMerge(i) ==
  /\ auto.pc = "pool" /\ i \in DOMAIN results
  /\ Returned(WorkerName(i)) /\ MergesBack(WorkerName(i))
  /\ Merging = {}
  /\ fl' = [fl EXCEPT ![WorkerName(i)].pc = "merge"]
  /\ UNCHANGED <<tasks, events, artifacts, reviews, pipeline_runs, pend, cfg,
                 auto, usr, sem, results, runsLeft, cmdsLeft>>

\* A pool that turns the result of a task to failed when its merge fails.
MergeResultReverts(status, err) == IF err THEN "failed" ELSE status

\* r.Status after MergeWorktreeChanges returned: unchanged, error or not.
MergeResult(status, err) == status

\* The end of the goroutine of task index i, with the worktree removed when
\* the task's result is one of those in cleaned.  A goroutine that is in
\* MergeWorktreeChanges gets its answer (an error or none) and appends the
\* line to the log of its result.
runParallelDoneIf(i, cleaned) ==
  /\ auto.pc = "pool" /\ i \in DOMAIN results
  /\ \/ fl[WorkerName(i)].pc = "merge"
     \/ Returned(WorkerName(i)) /\ ~MergesBack(WorkerName(i))
  /\ sem' = sem - 1
  /\ fl' = [fl EXCEPT ![WorkerName(i)] = NoLoop]
  /\ LET f == fl[WorkerName(i)]
         merged == f.pc = "merge"
         cleanup == f.task \in auto.worktrees /\ f.result \in cleaned
     IN \E err \in (IF merged THEN BOOLEAN ELSE {FALSE}) :
          LET status == IF merged THEN MergeResult(f.result, err) ELSE f.result IN
          /\ results' = [results EXCEPT ![i] = status]
          /\ auto' = [auto EXCEPT
                        !.worktrees = IF cleanup THEN @ \ {f.task} ELSE @,
                        !.removed = IF cleanup THEN @ + 1 ELSE @,
                        !.merges = IF merged
                                   THEN @ \cup {[task |-> f.task, err |-> err,
                                                 status |-> status,
                                                 line |-> IF err THEN "merge failed"
                                                          ELSE "merged into epic branch"]}
                                   ELSE @,
                        !.resultIDs = [@ EXCEPT ![i] = f.task]]
  /\ UNCHANGED <<tasks, events, artifacts, reviews, pipeline_runs, pend, cfg,
                 usr, runsLeft, cmdsLeft>>

\* A goroutine that removes its worktree only after a merge.
runParallelDoneKeepsUnmerged(i) ==
  runParallelDoneIf(i, {"done"})

\* The goroutine of task index i at its end: p.mu.Unlock() after a merge,
\* results[idx] = r, the deferred removal of the worktree (RemoveWorktree,
\* os.RemoveAll, PruneWorktrees) and the deferred release of the slot.
runParallelDone(i) ==
  runParallelDoneIf(i, {"done", "blocked", "failed"})

Count(seq, v) == Cardinality({k \in DOMAIN seq : seq[k] = v})

\* A runParallel without wg.Wait: it returns after the last turn of its
\* for loop.
runAutoPoolTallyNoWait ==
  /\ auto.pc = "pool" /\ auto.i > Len(auto.subtasks)
  /\ auto' = [auto EXCEPT !.pc = "summary",
                !.completed = Count(results, "done"),
                !.blocked = Count(results, "blocked"),
                !.failed = Len(results) - Count(results, "done")
                             - Count(results, "blocked")]
  /\ results' = <<>>
  /\ UNCHANGED <<tasks, events, artifacts, reviews, pipeline_runs, pend, cfg,
                 fl, usr, sem, runsLeft, cmdsLeft>>

\* wg.Wait returns when every goroutine has finished; runAuto then tallies
\* the results.
runAutoPoolTally ==
  /\ auto.pc = "pool" /\ auto.i > Len(auto.subtasks)
  /\ \A w \in Workers : fl[w].pc = "off"
  /\ auto' = [auto EXCEPT !.pc = "summary",
                !.completed = Count(results, "done"),
                !.blocked = Count(results, "blocked"),
                !.failed = Len(results) - Count(results, "done")
                             - Count(results, "blocked")]
  /\ results' = <<>>
  /\ UNCHANGED <<tasks, events, artifacts, reviews, pipeline_runs, pend, cfg,
                 fl, usr, sem, runsLeft, cmdsLeft>>

\* An end status that lets a blocked task hide a failed one.
EndStatusBlockedFirst(failed, blocked) ==
  IF blocked > 0 THEN "blocked" ELSE IF failed > 0 THEN "failed" ELSE "completed"

\* runAuto summary: EndPipelineRun with completed / failed / blocked.
EndStatus(failed, blocked) ==
  IF failed > 0 THEN "failed" ELSE IF blocked > 0 THEN "blocked" ELSE "completed"

runAutoSummary ==
  /\ auto.pc = "summary"
  /\ pipeline_runs' = IF auto.runID > 0
                      THEN EndPipelineRun(pipeline_runs, auto.runID,
                                          EndStatus(auto.failed, auto.blocked))
                      ELSE pipeline_runs
  /\ auto' = [auto EXCEPT !.pc = "finish"]
  /\ UNCHANGED <<tasks, events, artifacts, reviews, pend, cfg, fl, usr, sem,
                 results, runsLeft, cmdsLeft>>

\* runAuto, after the summary: when every subtask completed, an epic goes
\* to review and a task to done.
runAutoFinish ==
  /\ auto.pc = "finish"
  /\ IF auto.completed = Len(auto.subtasks)
     THEN LET st == IF auto.kind = KindEpic THEN StatusReview ELSE StatusDone IN
          /\ tasks' = UpdateTaskStatusRow(tasks, auto.id, st)
          /\ Enqueue(AutoProc, <<UpdateTaskStatusEvent(auto.id, st)>>)
     ELSE UNCHANGED <<tasks, pend, runsLeft>>
  /\ auto' = [auto EXCEPT !.pc = "exit"]
  /\ UNCHANGED <<events, artifacts, reviews, pipeline_runs, cfg, fl, usr,
                 sem, results, runsLeft, cmdsLeft>>

\* runAuto returns: the deferred function marks the run interrupted if it
\* is still the epic's active run.
runAutoExit ==
  /\ auto.pc = "exit" /\ Idle(AutoProc)
  /\ pipeline_runs' =
       IF auto.runID > 0 /\ GetActivePipelineRun(pipeline_runs, auto.id) = auto.runID
       THEN EndPipelineRun(pipeline_runs, auto.runID, "interrupted")
       ELSE pipeline_runs
  /\ auto' = NoAuto
  /\ cfg' = IF fl[AnswerProc].pc = "off" THEN NoConfig ELSE cfg
  /\ UNCHANGED <<tasks, events, artifacts, reviews, pend, fl, usr,
                 sem, results, runsLeft, cmdsLeft>>

\* ------------------------------------------------------------ runAnswer
hasArchSpec(id) == \E k \in DOMAIN events[id] : events[id][k].type = "architect_spec"

\* After the architect step: autoFixLoop, unless no coder is configured.
AnswerLoop(id, maxLoops) ==
  IF cfg.coder THEN EnterLoop("autoFixLoop", id, maxLoops)
  ELSE [NoLoop EXCEPT !.pc = "ret"]

\* runAnswer up to its first UPDATE: the item must be blocked; the answer
\* "skip" cancels it (UpdateTaskStatus + AddEvent) and returns, any other
\* answer calls UnblockTask.
runAnswer(id, skip, maxLoops) ==
  /\ ShellFree /\ cmdsLeft > 0
  /\ id \in Ids /\ tasks[id].status = StatusBlocked
  /\ IF skip
     THEN /\ tasks' = UpdateTaskStatusRow(tasks, id, StatusCancelled)
          /\ Enqueue(AnswerProc, <<UpdateTaskStatusEvent(id, StatusCancelled),
                                   AddEvent(id, "user", "cancelled", "skipped")>>)
          /\ fl' = fl
     ELSE /\ tasks' = UnblockTaskRow(tasks, id)
          /\ Enqueue(AnswerProc, <<UnblockTaskEvent(id, "answer")>>)
          /\ fl' = [fl EXCEPT ![AnswerProc] =
                      [NoLoop EXCEPT !.pc = "arch", !.task = id, !.maxLoops = maxLoops]]
  /\ cmdsLeft' = cmdsLeft - 1
  /\ cfg' \in (IF skip THEN {cfg} ELSE AnswerConfigs)
  /\ UNCHANGED <<events, artifacts, reviews, pipeline_runs, auto,
                 usr, sem, results, runsLeft>>

\* runAnswer step 1: the architect runs when the item has no architect_spec
\* event yet and an architect is configured; its error ends the command.
runAnswerArchitect ==
  /\ fl[AnswerProc].pc = "arch" /\ Idle(AnswerProc)
  /\ LET f == fl[AnswerProc] IN
     IF ~hasArchSpec(f.task) /\ cfg.arch
     THEN \E out \in {"err", "blocked", "ok"} :
            IF out = "err"
            THEN /\ fl' = [fl EXCEPT ![AnswerProc].pc = "ret"]
                 /\ pend' = pend
            ELSE /\ fl' = [fl EXCEPT ![AnswerProc].pc = "arch_done",
                                     ![AnswerProc].out = out]
                 /\ Enqueue(AnswerProc, <<AddArtifact(f.task, "architect")>>)
     ELSE /\ fl' = [fl EXCEPT ![AnswerProc] = AnswerLoop(f.task, f.maxLoops)]
          /\ pend' = pend
  /\ UNCHANGED <<tasks, events, artifacts, reviews, pipeline_runs, cfg, auto,
                 usr, sem, results, runsLeft, cmdsLeft>>

\* A runAnswer that starts the fix loop although the architect blocked.
runAnswerArchDoneGoesOn ==
  /\ fl[AnswerProc].pc = "arch_done" /\ Idle(AnswerProc)
  /\ LET f == fl[AnswerProc] IN
     IF f.out = "blocked"
     THEN /\ tasks' = BlockTaskRow(tasks, f.task, Question)
          /\ Enqueue(AnswerProc, <<BlockTaskEvent(f.task, Question)>>)
          /\ fl' = [fl EXCEPT ![AnswerProc] = AnswerLoop(f.task, f.maxLoops)]
     ELSE /\ tasks' = tasks
          /\ Enqueue(AnswerProc, <<AddEvent(f.task, ArchName, "architect_spec", "spec")>>)
          /\ fl' = [fl EXCEPT ![AnswerProc] = AnswerLoop(f.task, f.maxLoops)]
  /\ UNCHANGED <<events, artifacts, reviews, pipeline_runs, cfg, auto, usr,
                 sem, results, runsLeft, cmdsLeft>>

\* runAnswer: ParseBlocked on the architect's output (BlockTask, return),
\* otherwise the architect_spec event and step 2, the fix loop.
runAnswerArchDone ==
  /\ fl[AnswerProc].pc = "arch_done" /\ Idle(AnswerProc)
  /\ LET f == fl[AnswerProc] IN
     IF f.out = "blocked"
     THEN /\ tasks' = BlockTaskRow(tasks, f.task, Question)
          /\ Enqueue(AnswerProc, <<BlockTaskEvent(f.task, Question)>>)
          /\ fl' = [fl EXCEPT ![AnswerProc].pc = "ret"]
     ELSE /\ tasks' = tasks
          /\ Enqueue(AnswerProc, <<AddEvent(f.task, ArchName, "architect_spec", "spec")>>)
          /\ fl' = [fl EXCEPT ![AnswerProc] = AnswerLoop(f.task, f.maxLoops)]
  /\ UNCHANGED <<events, artifacts, reviews, pipeline_runs, cfg, auto, usr,
                 sem, results, runsLeft, cmdsLeft>>

\* runAnswer: the switch on autoFixLoop's result (messages, commit), return.
runAnswerExit ==
  /\ Returned(AnswerProc)
  /\ fl' = [fl EXCEPT ![AnswerProc] = NoLoop]
  /\ cfg' = IF auto.pc = "idle" THEN NoConfig ELSE cfg
  /\ UNCHANGED <<tasks, events, artifacts, reviews, pipeline_runs,
                 pend, auto, usr, sem, results, runsLeft, cmdsLeft>>

\* --------------------------------------------------------------- runFix
\* hive fix resolves a coder and a reviewer and refuses to run without.
FixConfigs == {c \in Configs : c.reviewer /\ ~c.pm /\ ~c.arch}

\* hive fix <id> [--max-loops n] up to the for loop.
runFix(id, maxLoops) ==
  /\ ShellFree /\ cmdsLeft > 0 /\ id \in Ids
  /\ cfg' \in FixConfigs
  /\ fl' = [fl EXCEPT ![FixProc] =
              [NoLoop EXCEPT !.pc = "iter", !.fn = "runFix", !.task = id,
                             !.iter = 1, !.maxLoops = maxLoops, !.dir = WorkDir]]
  /\ cmdsLeft' = cmdsLeft - 1
  /\ UNCHANGED <<tasks, events, artifacts, reviews, pipeline_runs, pend,
                 auto, usr, sem, results, runsLeft>>

\* runFix returns (nil or the error).
runFixExit ==
  /\ Returned(FixProc)
  /\ fl' = [fl EXCEPT ![FixProc] = NoLoop]
  /\ cfg' = NoConfig
  /\ UNCHANGED <<tasks, events, artifacts, reviews, pipeline_runs, pend,
                 auto, usr, sem, results, runsLeft, cmdsLeft>>

\* -------------------------------------------------------- user commands
NoCmd == [pc |-> "idle", id |-> 0, kids |-> <<>>, runID |-> 0]

\* hive epic create: CreateEpic (INSERT, then the created event).
runEpicCreate ==
  /\ ShellFree /\ Setup /\ Len(tasks) < MaxItems
  /\ tasks' = createItem(tasks, KindEpic, 0)
  /\ Enqueue(UserProc, <<createItemEvent(Len(tasks) + 1)>>)
  /\ usr' = [NoCmd EXCEPT !.pc = "branch", !.id = Len(tasks) + 1]
  /\ UNCHANGED <<events, artifacts, reviews, pipeline_runs, cfg, auto, fl,
                 sem, results, runsLeft, cmdsLeft>>

\* hive epic create: SetGitBranch when the directory is a clean git
\* repository and the branch could be created.
runEpicCreateBranch ==
  /\ usr.pc = "branch" /\ Idle(UserProc)
  /\ \E branched \in BOOLEAN :
       tasks' = IF branched THEN SetGitBranch(tasks, usr.id, BranchName(usr.id)) ELSE tasks
  /\ usr' = NoCmd
  /\ UNCHANGED <<events, artifacts, reviews, pipeline_runs, pend, cfg, auto,
                 fl, sem, results, runsLeft, cmdsLeft>>

\* hive task create [--parent N]: the parent flag is not validated.
runTaskCreate(parentID) ==
  /\ ShellFree /\ Setup /\ Len(tasks) < MaxItems
  /\ tasks' = createItem(tasks, KindTask, parentID)
  /\ Enqueue(UserProc, <<createItemEvent(Len(tasks) + 1)>>)
  /\ usr' = NoCmd
  /\ UNCHANGED <<events, artifacts, reviews, pipeline_runs, cfg, auto, fl,
                 sem, results, runsLeft, cmdsLeft>>

\* hive task done <id>.
runTaskDone(id) ==
  /\ ShellFree /\ cmdsLeft > 0 /\ id \in Ids
  /\ tasks' = UpdateTaskStatusRow(tasks, id, StatusDone)
  /\ Enqueue(UserProc, <<UpdateTaskStatusEvent(id, StatusDone)>>)
  /\ usr' = NoCmd
  /\ cmdsLeft' = cmdsLeft - 1
  /\ UNCHANGED <<events, artifacts, reviews, pipeline_runs, cfg, auto, fl,
                 sem, results, runsLeft>>

\* hive task cancel <id>: refused for a done item.
runTaskCancel(id) ==
  /\ ShellFree /\ cmdsLeft > 0 /\ id \in Ids
  /\ tasks[id].status # StatusDone
  /\ tasks' = UpdateTaskStatusRow(tasks, id, StatusCancelled)
  /\ Enqueue(UserProc, <<UpdateTaskStatusEvent(id, StatusCancelled),
                         AddEvent(id, "user", "cancelled", "cancelled")>>)
  /\ usr' = NoCmd
  /\ cmdsLeft' = cmdsLeft - 1
  /\ UNCHANGED <<events, artifacts, reviews, pipeline_runs, cfg, auto, fl,
                 sem, results, runsLeft>>

\* hive task block <id> <reason>.
runTaskBlock(id) ==
  /\ ShellFree /\ cmdsLeft > 0 /\ id \in Ids
  /\ tasks' = BlockTaskRow(tasks, id, Question)
  /\ Enqueue(UserProc, <<BlockTaskEvent(id, Question)>>)
  /\ usr' = NoCmd
  /\ cmdsLeft' = cmdsLeft - 1
  /\ UNCHANGED <<events, artifacts, reviews, pipeline_runs, cfg, auto, fl,
                 sem, results, runsLeft>>

\* TUI resolve popup, enter: UnblockTask(popupTaskID, answer); the status
\* is not read again.
handleResolvePopup ==
  /\ usr.pc = "popup" /\ Idle(UserProc)
  /\ tasks' = UnblockTaskRow(tasks, usr.id)
  /\ Enqueue(UserProc, <<UnblockTaskEvent(usr.id, "answer")>>)
  /\ usr' = NoCmd
  /\ UNCHANGED <<events, artifacts, reviews, pipeline_runs, cfg, auto, fl,
                 sem, results, runsLeft, cmdsLeft>>

\* TUI, key r on a blocked task: the resolve popup opens for that task.
handleEpicKey(id) ==
  /\ ShellFree /\ cmdsLeft > 0 /\ id \in Ids
  /\ tasks[id].status = StatusBlocked
  /\ usr' = [NoCmd EXCEPT !.pc = "popup", !.id = id]
  /\ cmdsLeft' = cmdsLeft - 1
  /\ UNCHANGED <<tasks, events, artifacts, reviews, pipeline_runs, pend, cfg,
                 auto, fl, sem, results, runsLeft>>

\* hive epic accept <id>: needs an epic with a safety branch and a
\* non-empty diff; after the merge UpdateTaskStatus(done) and the accepted
\* event.  A failed merge returns before any write.
runEpicAccept(id) ==
  /\ ShellFree /\ cmdsLeft > 0 /\ id \in Ids
  /\ tasks[id].kind = KindEpic /\ tasks[id].git_branch # ""
  /\ tasks' = UpdateTaskStatusRow(tasks, id, StatusDone)
  /\ Enqueue(UserProc, <<UpdateTaskStatusEvent(id, StatusDone),
                         AddEvent(id, "user", "accepted", "merged")>>)
  /\ usr' = NoCmd
  /\ cmdsLeft' = cmdsLeft - 1
  /\ UNCHANGED <<events, artifacts, reviews, pipeline_runs, cfg, auto, fl,
                 sem, results, runsLeft>>

ChildrenAccepted(t, epicID) ==
  \A c \in DOMAIN t :
    t[c].parent_id = epicID => t[c].status \in {StatusDone, StatusCancelled}

\* TUI accept: refused unless every child is done or cancelled; without a
\* git branch only UpdateTaskStatus(done), otherwise merge, done, accepted.
doAccept(id) ==
  /\ ShellFree /\ cmdsLeft > 0 /\ id \in Ids
  /\ tasks[id].kind = KindEpic
  /\ ChildrenAccepted(tasks, id)
  /\ tasks' = UpdateTaskStatusRow(tasks, id, StatusDone)
  /\ \E git \in BOOLEAN :
       Enqueue(UserProc,
               <<UpdateTaskStatusEvent(id, StatusDone)>> \o
               (IF git /\ tasks[id].git_branch # ""
                THEN <<AddEvent(id, "user", "accepted", "merged")>> ELSE <<>>))
  /\ usr' = NoCmd
  /\ cmdsLeft' = cmdsLeft - 1
  /\ UNCHANGED <<events, artifacts, reviews, pipeline_runs, cfg, auto, fl,
                 sem, results, runsLeft>>

\* TUI reject: UpdateTaskStatus(failed) and the rejected event; no cascade.
doReject(id) ==
  /\ ShellFree /\ cmdsLeft > 0 /\ id \in Ids
  /\ tasks[id].kind = KindEpic
  /\ tasks' = UpdateTaskStatusRow(tasks, id, StatusFailed)
  /\ Enqueue(UserProc, <<UpdateTaskStatusEvent(id, StatusFailed),
                         AddEvent(id, "user", "rejected", "rejected")>>)
  /\ usr' = NoCmd
  /\ cmdsLeft' = cmdsLeft - 1
  /\ UNCHANGED <<events, artifacts, reviews, pipeline_runs, cfg, auto, fl,
                 sem, results, runsLeft>>

\* hive epic reject <id>: RejectBranch, UpdateTaskStatus(failed), rejected.
runEpicReject(id) ==
  /\ ShellFree /\ cmdsLeft > 0 /\ id \in Ids
  /\ tasks[id].kind = KindEpic /\ tasks[id].git_branch # ""
  /\ tasks' = UpdateTaskStatusRow(tasks, id, StatusFailed)
  /\ Enqueue(UserProc, <<UpdateTaskStatusEvent(id, StatusFailed),
                         AddEvent(id, "user", "rejected", "discarded")>>)
  /\ usr' = [NoCmd EXCEPT !.pc = "list", !.id = id]
  /\ cmdsLeft' = cmdsLeft - 1
  /\ UNCHANGED <<events, artifacts, reviews, pipeline_runs, cfg, auto, fl,
                 sem, results, runsLeft>>

\* hive epic reject: ListTasksByEpic, the rows as they are now.
runEpicRejectList ==
  /\ usr.pc = "list" /\ Idle(UserProc)
  /\ usr' = [usr EXCEPT !.pc = "cascade",
                        !.kids = Snapshots(tasks, ListTasksByEpic(tasks, usr.id))]
  /\ UNCHANGED <<tasks, events, artifacts, reviews, pipeline_runs, pend, cfg,
                 auto, fl, sem, results, runsLeft, cmdsLeft>>

\* hive epic reject, the cascade: every listed task whose status is
\* neither done nor failed gets UpdateTaskStatus(failed).
runEpicRejectCascade ==
  /\ usr.pc = "cascade" /\ Idle(UserProc)
  /\ IF usr.kids = <<>>
     THEN /\ usr' = NoCmd
          /\ UNCHANGED <<tasks, pend, runsLeft>>
     ELSE LET t == Head(usr.kids) IN
          /\ usr' = [usr EXCEPT !.kids = Tail(@)]
          /\ IF t.Status # StatusDone /\ t.Status # StatusFailed
             THEN /\ tasks' = UpdateTaskStatusRow(tasks, t.ID, StatusFailed)
                  /\ Enqueue(UserProc, <<UpdateTaskStatusEvent(t.ID, StatusFailed)>>)
             ELSE UNCHANGED <<tasks, pend, runsLeft>>
  /\ UNCHANGED <<events, artifacts, reviews, pipeline_runs, cfg, auto, fl,
                 sem, results, runsLeft, cmdsLeft>>

\* --------------------------------------------------- crash and resume
\* The `hive auto` process is killed: its position and the INSERTs it had
\* not issued yet are gone, the deferred function does not run, and the
\* pipeline_runs row stays "running".
Kill ==
  /\ auto.pc \notin {"idle", "begin", "resume"}
  /\ auto' = NoAuto
  /\ fl' = [a \in FixActors |->
              IF a \in {AnswerProc, FixProc} THEN fl[a] ELSE NoLoop]
  /\ pend' = [a \in Actors |->
                IF a \in {AnswerProc, FixProc, UserProc} THEN pend[a] ELSE <<>>]
  /\ sem' = 0
  /\ results' = <<>>
  /\ cfg' = NoConfig
  /\ UNCHANGED <<tasks, events, artifacts, reviews, pipeline_runs,
                 usr, runsLeft, cmdsLeft>>

\* hive resume <run-id>, step 1, with the flags runAuto is to be given.
resumeRunFlags(runID, maxLoops, parallel) ==
  /\ ShellFree /\ cmdsLeft > 0
  /\ runID \in DOMAIN pipeline_runs
  /\ pipeline_runs[runID].status = "running"
  /\ tasks' = ResetStaleTasks(tasks, pipeline_runs[runID].epic_id)
  /\ auto' = [NoAuto EXCEPT !.pc = "resume", !.id = pipeline_runs[runID].epic_id,
                !.runID = runID, !.maxLoops = maxLoops, !.parallel = parallel]
  /\ cmdsLeft' = cmdsLeft - 1
  /\ cfg' \in AutoConfigs
  /\ UNCHANGED <<events, artifacts, reviews, pipeline_runs, pend,
                 fl, usr, sem, results, runsLeft>>

\* The flag defaults of hive auto.
DefaultMaxLoops == 3
DefaultParallel == 1

\* A resume that re-runs the pipeline with the defaults of the flags.
resumeRunDefaults(runID) ==
  resumeRunFlags(runID, DefaultMaxLoops, DefaultParallel)

\* hive resume <run-id>, step 1: the run must be listed as running;
\* ResetStaleTasks on its epic; the flags are the run's max_loops and
\* parallel.
resumeRun(runID) ==
  resumeRunFlags(runID, pipeline_runs[runID].max_loops,
                 pipeline_runs[runID].parallel)

\* hive resume, steps 2 and 3: EndPipelineRun(interrupted), then runAuto
\* with the run's settings and --skip-plan.
resumeRunAuto ==
  /\ auto.pc = "resume"
  /\ pipeline_runs' = EndPipelineRun(pipeline_runs, auto.runID, "interrupted")
  /\ auto' = [auto EXCEPT !.pc = "begin", !.skipPlan = TRUE, !.runID = 0,
                           !.resumed = auto.runID]
  /\ UNCHANGED <<tasks, events, artifacts, reviews, pend, cfg, fl, usr, sem,
                 results, runsLeft, cmdsLeft>>

\* ------------------------------------------- a second `hive auto` process
\* hive auto <id> typed in a second terminal while another command may be
\* running, in a directory that is not a git repository: GetTask, the
\* warning about an active run (not fatal), and for an epic
\* StartPipelineRun.  Its planner run then fails.
runAutoSecond(id) ==
  /\ usr.pc = "idle" /\ Idle(UserProc) /\ cmdsLeft > 0 /\ id \in Ids
  /\ IF tasks[id].kind = KindEpic
     THEN /\ pipeline_runs' = StartPipelineRun(pipeline_runs, id, DefaultMaxLoops,
                                               DefaultParallel)
          /\ usr' = [NoCmd EXCEPT !.pc = "auto", !.id = id,
                                  !.runID = Len(pipeline_runs) + 1]
     ELSE /\ pipeline_runs' = pipeline_runs
          /\ usr' = [NoCmd EXCEPT !.pc = "auto", !.id = id]
  /\ cmdsLeft' = cmdsLeft - 1
  /\ UNCHANGED <<tasks, events, artifacts, reviews, pend, cfg, auto, fl, sem,
                 results, runsLeft>>

\* The second process returns "plan failed": the deferred function marks
\* its run interrupted if that is still the epic's active run.
runAutoSecondExit ==
  /\ usr.pc = "auto"
  /\ pipeline_runs' =
       IF usr.runID > 0 /\ GetActivePipelineRun(pipeline_runs, usr.id) = usr.runID
       THEN EndPipelineRun(pipeline_runs, usr.runID, "interrupted")
       ELSE pipeline_runs
  /\ usr' = NoCmd
  /\ UNCHANGED <<tasks, events, artifacts, reviews, pend, cfg, auto, fl, sem,
                 results, runsLeft, cmdsLeft>>

\* ------------------------------------------------------- specification
Init ==
  /\ tasks = <<>>
  /\ events = [i \in ItemIds |-> <<>>]
  /\ artifacts = [i \in ItemIds |-> <<>>]
  /\ reviews = [i \in ItemIds |-> <<>>]
  /\ pipeline_runs = <<>>
  /\ pend = [a \in Actors |-> <<>>]
  /\ cfg = NoConfig
  /\ auto = NoAuto
  /\ fl = [a \in FixActors |-> NoLoop]
  /\ usr = NoCmd
  /\ sem = 0
  /\ results = <<>>
  /\ runsLeft = MaxRuns
  /\ cmdsLeft = MaxCmds

ReviewLoop(a) ==
  \/ autoFixLoopIter(a)
  \/ autoFixLoopCoder(a)
  \/ autoFixLoopCoded(a)
  \/ autoFixLoopReviewer(a)
  \/ autoFixLoopVerdict(a)

FixLoop(a) ==
  \/ ReviewLoop(a)
  \/ runCoderOnceStart(a)
  \/ runCoderOnceRun(a)
  \/ runCoderOnceDone(a)

Pipeline ==
  \/ runAutoBegin
  \/ runAutoStartRun
  \/ runAutoPlan
  \/ autoPlanParsed
  \/ autoPlanCreate
  \/ runAutoAssign
  \/ runAutoWork
  \/ runAutoTally
  \/ runAutoSummary
  \/ runAutoFinish
  \/ runAutoExit
  \/ FixLoop(AutoProc)

Answer ==
  \/ runAnswerArchitect
  \/ runAnswerArchDone
  \/ runAnswerExit
  \/ FixLoop(AnswerProc)

Fix ==
  \/ runFixExit
  \/ ReviewLoop(FixProc)

Epics == {i \in Ids : tasks[i].kind = KindEpic}

Create ==
  \/ runEpicCreate
  \/ \E parentID \in {0} \cup Epics : runTaskCreate(parentID)

Command ==
  \/ \E id \in Ids : runTaskDone(id)
  \/ \E id \in Ids : runTaskCancel(id)
  \/ \E id \in Ids : runTaskBlock(id)
  \/ \E id \in Ids : handleEpicKey(id)
  \/ \E id \in Ids : runEpicAccept(id)
  \/ \E id \in Ids : doAccept(id)
  \/ \E id \in Ids : doReject(id)
  \/ \E id \in Ids : runEpicReject(id)
  \/ \E id \in Ids, skip \in BOOLEAN, maxLoops \in 0..MaxLoopsCap :
       runAnswer(id, skip, maxLoops)

User ==
  \/ runEpicCreateBranch
  \/ handleResolvePopup
  \/ runEpicRejectList
  \/ runEpicRejectCascade

Next ==
  \/ Create
  \/ Command
  \/ \E id \in Ids, skipPlan \in BOOLEAN, maxLoops \in 0..MaxLoopsCap :
       runAutoCmd(id, skipPlan, maxLoops, 1)
  \/ Pipeline
  \/ Answer
  \/ User
  \/ \E a \in Actors : Flush(a)

Spec == Init /\ [][Next]_vars

\* hive fix on its own: the items are created, then one `hive fix` runs.
NextFix ==
  \/ Create
  \/ runEpicCreateBranch
  \/ \E id \in Ids, maxLoops \in 0..MaxLoopsCap : runFix(id, maxLoops)
  \/ Fix
  \/ \E a \in Actors : Flush(a)

SpecFix == Init /\ [][NextFix]_vars

\* The worker pool: an epic with PoolTasks children, as `hive epic create`
\* and `hive task create --parent 1` leave them, and one
\* `hive auto 1 --skip-plan --parallel MaxWorkers` with a reviewer configured
\* or not.
MaxWorkers == 2

PoolRows ==
  [i \in 1..(PoolTasks + 1) |->
     IF i = 1 THEN NewRow(KindEpic, 0) ELSE NewRow(KindTask, 1)]

InitPool ==
  /\ tasks = PoolRows
  /\ events = [i \in ItemIds |->
                 IF i \in DOMAIN PoolRows
                 THEN <<[agent |-> "", type |-> "created", content |-> "created"]>>
                 ELSE <<>>]
  /\ artifacts = [i \in ItemIds |-> <<>>]
  /\ reviews = [i \in ItemIds |-> <<>>]
  /\ pipeline_runs = <<>>
  /\ pend = [a \in Actors |-> <<>>]
  /\ cfg = NoConfig
  /\ auto = NoAuto
  /\ fl = [a \in FixActors |-> NoLoop]
  /\ usr = NoCmd
  /\ sem = 0
  /\ results = <<>>
  /\ runsLeft = MaxRuns
  /\ cmdsLeft = MaxCmds

NextPool ==
  \/ \E maxLoops \in 0..1 : runAutoCmd(1, TRUE, maxLoops, MaxWorkers)
  \/ runAutoBegin
  \/ runAutoStartRun
  \/ runAutoPlan
  \/ runAutoAssign
  \/ runAutoPool
  \/ runParallel
  \/ \E i \in DOMAIN results : runParallelMerge(i)
  \/ \E i \in DOMAIN results : runParallelDone(i)
  \/ runAutoPoolTally
  \/ runAutoSummary
  \/ runAutoFinish
  \/ runAutoExit
  \/ \E w \in Workers : FixLoop(w)
  \/ \E w \in Workers : executeTaskCommit(w)
  \/ \E a \in Actors : Flush(a)

SpecPool == InitPool /\ [][NextPool]_vars

\* Crash recovery: the items are created, one `hive auto` runs and may be
\* killed, and `hive resume` picks the run up.
NextResume ==
  \/ Create
  \/ runEpicCreateBranch
  \/ \E id \in Ids, skipPlan \in BOOLEAN, parallel \in 1..MaxWorkers :
       runAutoCmd(id, skipPlan, 1, parallel)
  \/ Pipeline
  \/ Kill
  \/ \E runID \in DOMAIN pipeline_runs : resumeRun(runID)
  \/ resumeRunAuto
  \/ \E a \in Actors : Flush(a)

SpecResume == Init /\ [][NextResume]_vars

\* Two terminals: the items are created, one `hive auto` runs, and a second
\* `hive auto` is started beside it.
NextTwo ==
  \/ Create
  \/ runEpicCreateBranch
  \/ \E id \in Ids, skipPlan \in BOOLEAN : runAutoCmd(id, skipPlan, 1, 1)
  \/ Pipeline
  \/ \E id \in Ids : runAutoSecond(id)
  \/ runAutoSecondExit
  \/ \E a \in Actors : Flush(a)

SpecTwo == Init /\ [][NextTwo]_vars

\* ---------------------------------------------------------- properties
\* C1: in every reachable state a work item has a non-empty blocked_reason
\* if and only if its status is blocked.
C1_BlockedReasonIffBlocked ==
  \A i \in Ids : (tasks[i].blocked_reason # "") <=> (tasks[i].status = StatusBlocked)

\* The edges of the task state machine.
TaskEdges ==
  {<<StatusBacklog, StatusInProgress>>, <<StatusInProgress, StatusBlocked>>,
   <<StatusInProgress, StatusReview>>, <<StatusInProgress, StatusFailed>>,
   <<StatusReview, StatusDone>>, <<StatusReview, StatusBacklog>>,
   <<StatusReview, StatusCancelled>>, <<StatusBlocked, StatusBacklog>>}

\* C2: every status change that a step of the pipeline executor makes to a
\* task is an edge of the task state machine.
C2_PipelineChangesAreEdges ==
  [][Pipeline =>
       \A i \in Ids :
         (tasks[i].kind = KindTask /\ tasks'[i].status # tasks[i].status)
           => <<tasks[i].status, tasks'[i].status>> \in TaskEdges]_vars

Terminal == {StatusDone, StatusFailed, StatusCancelled}

\* C3: a task whose status is done, failed or cancelled keeps that status
\* through every step of a pipeline run and of the epic-reject cascade.
C3_TerminalStatusKept ==
  [][(Pipeline \/ runEpicRejectCascade) =>
       \A i \in Ids :
         (tasks[i].kind = KindTask /\ tasks[i].status \in Terminal)
           => tasks'[i].status = tasks[i].status]_vars

\* C4: no step of a pipeline run, of a fix loop or of the blocker-answer
\* flow changes an epic's status to done.
C4_EpicNeverAutoAccepted ==
  [][(Pipeline \/ Answer) =>
       \A i \in Ids :
         (tasks[i].kind = KindEpic /\ tasks'[i].status = StatusDone)
           => tasks[i].status = StatusDone]_vars

\* C5: a step in which accept(epic) succeeds, from the CLI or from the TUI,
\* leaves the epic done and every child of the epic done or cancelled.
C5_AcceptLeavesChildrenFinished ==
  [][\A id \in Ids :
       (runEpicAccept(id) \/ doAccept(id))
         => tasks'[id].status = StatusDone /\ ChildrenAccepted(tasks', id)]_vars

\* C6: a fix loop has invoked the coder at most max_loops times and the
\* reviewer at most max_loops times, and what it returns is one of done,
\* blocked and failed.
C6_LoopBoundedAndReturns ==
  \A a \in FixActors :
    fl[a].fn # "" =>
      /\ fl[a].coderCalls <= fl[a].maxLoops
      /\ fl[a].reviewerCalls <= fl[a].maxLoops
      /\ fl[a].pc = "ret" => fl[a].result \in {"done", "blocked", "failed"}

\* C7: when a fix loop has returned after max_loops iterations, none of
\* which ended in APPROVE, it returned failed and the task's status is failed.
C7_ExhaustedLoopFails ==
  \A a \in FixActors :
    (fl[a].fn # "" /\ Returned(a) /\ fl[a].iter > fl[a].maxLoops)
      => fl[a].result = "failed" /\ tasks[fl[a].task].status = StatusFailed

\* The loop of C7 at its end: max_loops = MaxLoopsCap iterations, each with a
\* coder run and a review that did not approve, then failed.
C7_Witness ==
  \E a \in FixActors :
    /\ fl[a].fn = "autoFixLoop" /\ Returned(a)
    /\ fl[a].maxLoops = MaxLoopsCap /\ fl[a].iter > fl[a].maxLoops
    /\ fl[a].coderCalls = MaxLoopsCap /\ fl[a].reviewerCalls = MaxLoopsCap
    /\ tasks[fl[a].task].status = StatusFailed

\* The status an event row records, "" if it records none.
EventStatus(e) ==
  CASE e.type = "created" -> StatusBacklog
    [] e.type = "status_changed" -> e.content
    [] e.type = "blocked" -> StatusBlocked
    [] e.type = "unblocked" -> StatusBacklog
    [] OTHER -> ""

\* The status recorded by the latest status-bearing event of a log.
RECURSIVE LoggedStatus(_)
LoggedStatus(log) ==
  IF log = <<>> THEN ""
  ELSE IF EventStatus(log[Len(log)]) # "" THEN EventStatus(log[Len(log)])
  ELSE LoggedStatus(SubSeq(log, 1, Len(log) - 1))

\* C9: whoever reads the Store finds, for every item that has events, the
\* item's status and the event that recorded it together.
C9_StatusVisibleWithEvent ==
  \A i \in Ids : events[i] # <<>> => LoggedStatus(events[i]) = tasks[i].status

\* C8: a step that changes an item's status also issues, or queues as the
\* next statement of the same Store call, an event for that item.
C8_StatusChangeHasEvent ==
  [][\A i \in Ids :
       tasks'[i].status # tasks[i].status =>
         \E a \in Actors :
           /\ Len(pend'[a]) > Len(pend[a])
           /\ \E k \in (Len(pend[a]) + 1)..Len(pend'[a]) :
                pend'[a][k].tbl = "events" /\ pend'[a][k].id = i]_vars

\* The goroutines that hold a slot: started and not yet finished.
Running == {w \in Workers : fl[w].pc # "off"}

\* C10: while the pool runs, at most max_workers tasks are in their fix
\* loop, each holding one slot of the semaphore.
C10_AtMostMaxWorkers ==
  auto.pc = "pool" =>
    Cardinality(Running) <= auto.parallel /\ sem = Cardinality(Running)

\* Every slot is taken and the next ready task waits for one.
C10_Witness ==
  /\ auto.pc = "pool" /\ auto.i <= Len(auto.subtasks)
  /\ auto.subtasks[auto.i].Status = StatusBacklog
  /\ auto.subtasks[auto.i].AssignedAgent # ""
  /\ Cardinality(Running) = auto.parallel
  /\ auto.parallel < Len(auto.subtasks)
  /\ ~ENABLED runParallel

\* The goroutines that are writing to the epic branch in the main
\* directory: inside CommitAll there, or inside the cherry-pick of
\* MergeWorktreeChanges.
Committing == {w \in Workers : fl[w].pc = "commit"} \cup Merging

\* C11: at most one commit or cherry-pick of a pool worker against the
\* epic branch in the main working directory is in flight at any moment.
C11_OneWriterToEpicBranch ==
  Cardinality(Committing) <= 1

\* C12: with a cli coder and worktrees available to the pool, no two tasks
\* that execute at the same time have the same working directory.
C12_DedicatedWorkingTrees ==
  (auto.pc = "pool" /\ auto.cli /\ auto.useWorktree) =>
    \A v, w \in Running : v # w => fl[v].dir # fl[w].dir

\* The statuses the ready filter keeps away from the agents.
Skipped == {StatusDone, StatusCancelled, StatusBlocked}

\* C13: the step of the sequential pipeline or of a pool worker that leads
\* to the first agent invocation for a task (the UPDATE to in_progress that
\* the coder's run follows) is not taken on a task whose status is done,
\* cancelled or blocked.
C13_NoAgentForSkippedTask ==
  [][\A a \in {AutoProc} \cup Workers :
       (/\ fl[a].coderCalls = 0
        /\ fl[a].pc \in {"iter", "once"}
        /\ fl'[a].pc \in {"coder", "once_run"})
         => tasks[fl[a].task].status \notin Skipped]_vars

\* The statuses a crash leaves a task stuck in.
Stale == {StatusInProgress, StatusReview}

\* C14: when resume(run) has reset the stale tasks, no task under the run's
\* epic is in_progress or review.
C14_NoStaleTaskAfterResume ==
  auto.pc = "resume" =>
    \A i \in Ids : tasks[i].parent_id = auto.id => tasks[i].status \notin Stale

\* resume has just reset a child of the epic that the crash had left in
\* review: its last logged status is review and its status is backlog.
C14_Witness ==
  /\ auto.pc = "resume"
  /\ \E i \in Ids :
       /\ tasks[i].parent_id = auto.id
       /\ LoggedStatus(events[i]) = StatusReview
       /\ tasks[i].status = StatusBacklog

RunningRuns(epicID) ==
  {r \in DOMAIN pipeline_runs :
     pipeline_runs[r].epic_id = epicID /\ pipeline_runs[r].status = "running"}

\* The runs whose `hive auto` process is alive.
LiveRuns == {auto.runID, usr.runID} \ {0}

\* C16: an epic has at most one running PipelineRun, unless one of its
\* running records was left behind by a process that is gone (a crash).
C16_OneRunningRunPerEpic ==
  \A e \in Ids :
    Cardinality(RunningRuns(e)) > 1 => \E r \in RunningRuns(e) : r \notin LiveRuns

\* The statuses the Store holds for the subtasks of the running pipeline.
SubtaskStatuses == {tasks[auto.subtasks[k].ID].status : k \in DOMAIN auto.subtasks}

C18_CancelledRunIsInterrupted ==
  [][(Kill /\ auto.runID > 0) =>
       /\ \A a \in {AutoProc} \cup Workers : fl'[a] = NoLoop
       /\ pipeline_runs'[auto.runID].status = "interrupted"]_vars

\* The statuses the specification calls non-terminal.
NonTerminal == {StatusBacklog, StatusInProgress, StatusBlocked, StatusReview}

\* The step with which a reject of epic e returns: the TUI's doReject, or
\* the end of the cascade of hive epic reject.
RejectReturns(e) ==
  \/ doReject(e)
  \/ usr.pc = "cascade" /\ usr.id = e /\ usr.kids = <<>> /\ runEpicRejectCascade

\* C19: when a reject of an epic returns, the epic is failed and no child
\* of it is left backlog, in_progress, blocked or review: each of them is
\* failed.
C19_RejectFailsOpenChildren ==
  [][\A e \in Ids :
       RejectReturns(e) =>
         /\ tasks'[e].status = StatusFailed
         /\ \A c \in Ids :
              tasks[c].parent_id = e => tasks'[c].status \notin NonTerminal]_vars

\* C20: an accept of an epic that still has a child which is neither done
\* nor cancelled writes nothing: the statuses and the event log stay as
\* they were.
C20_AcceptRefusedWithOpenChild ==
  [][\A e \in Ids :
       ((runEpicAccept(e) \/ doAccept(e)) /\ ~ChildrenAccepted(tasks, e))
         => UNCHANGED <<tasks, events, pend>>]_vars

\* C21: when a pipeline run on an epic makes its last step after the
\* summary and the epic has tasks, every one of them done or cancelled,
\* the epic is in review after that step.
C21_EpicToReviewWhenAllDone ==
  [][(/\ auto.pc = "finish" /\ auto'.pc = "exit" /\ auto.kind = KindEpic
      /\ \E c \in Ids : tasks[c].parent_id = auto.id
      /\ ChildrenAccepted(tasks, auto.id))
       => tasks'[auto.id].status = StatusReview]_vars

\* C22: in a run whose planner answered BLOCKED the pipeline goes from the
\* plan straight to its exit: it has no subtask, no fix loop is started for
\* it, and at the exit the item is blocked with the planner's question.
C22_PlannerBlockedStopsPipeline ==
  auto.out = "blocked" =>
    /\ auto.pc \in {"planned", "exit"}
    /\ auto.subtasks = <<>>
    /\ \A a \in {AutoProc} \cup Workers : fl[a] = NoLoop
    /\ auto.pc = "exit" =>
         /\ tasks[auto.id].status = StatusBlocked
         /\ tasks[auto.id].blocked_reason = Question

\* A run that has stopped on the planner's question with the item blocked.
C22_Witness ==
  /\ auto.out = "blocked" /\ auto.pc = "exit" /\ Idle(AutoProc)
  /\ tasks[auto.id].kind = KindEpic
  /\ tasks[auto.id].status = StatusBlocked
  /\ LoggedStatus(events[auto.id]) = StatusBlocked

\* The step in which the Runner called by loop a comes back with an error:
\* the coder's (the loop returns) or the reviewer's (nothing is saved).
RunnerFails(a) ==
  \/ fl[a].pc = "coder" /\ fl'[a].pc = "ret"
  \/ fl[a].pc = "reviewer" /\ fl'[a].pc # "reviewer" /\ pend'[a] = pend[a]

\* C23: when the coder's or the reviewer's Runner fails for a task of the
\* pipeline, the task is failed and its loop returns failed, so that the
\* pipeline goes on to the next task.
C23_RunnerFailureFailsTask ==
  [][\A a \in {AutoProc} \cup Workers :
       RunnerFails(a) =>
         /\ tasks'[fl[a].task].status = StatusFailed
         /\ fl'[a].pc = "ret" /\ fl'[a].result = "failed"]_vars

\* C24: when a loop of the pipeline has returned and its rows are written,
\* the task has a code artifact for each coder invocation and a review
\* artifact for each reviewer invocation of the loop, and an event row for
\* each of them.
C24_InvocationLeavesArtifactAndEvent ==
  \A a \in {AutoProc} \cup Workers :
    (Returned(a) /\ fl[a].fn # "") =>
      LET t == fl[a].task
          Saved(type) == Cardinality({k \in DOMAIN artifacts[t] : artifacts[t][k] = type})
      IN /\ Saved("code") >= fl[a].coderCalls
         /\ Saved("review") >= fl[a].reviewerCalls
         /\ Len(events[t]) >= fl[a].coderCalls + fl[a].reviewerCalls

\* Builder.eventHistory: the events of the kinds a prompt repeats, in the
\* order of the log, each as the line "- **[agent]** type: content".
HistoryTypes == {"unblocked", "comment", "reviewed", "completed", "architect_spec"}

\* A history that leaves the reviews out.
eventHistoryNoReviews(log) ==
  LET Relevant(e) == e.type \in HistoryTypes \ {"reviewed"}
      Line(e) == [agent |-> IF e.agent = "" THEN "system" ELSE e.agent,
                  type |-> e.type, content |-> e.content]
      rel == SelectSeq(log, Relevant)
  IN [k \in DOMAIN rel |-> Line(rel[k])]

eventHistory(log) ==
  LET Relevant(e) == e.type \in HistoryTypes
      Line(e) == [agent |-> IF e.agent = "" THEN "system" ELSE e.agent,
                  type |-> e.type, content |-> e.content]
      rel == SelectSeq(log, Relevant)
  IN [k \in DOMAIN rel |-> Line(rel[k])]

\* C25: after a REJECT the loop is at the head of its next iteration with
\* the task in backlog, and when that iteration calls the coder the last
\* line of the History section of its prompt is the reviewer's REJECTED
\* event with the comments of that review.
C25_RejectFeedsNextIteration ==
  \A a \in FixActors :
    fl[a].out = "REJECT" =>
      /\ (fl[a].pc = "iter" /\ Idle(a)) => tasks[fl[a].task].status = StatusBacklog
      /\ (fl[a].pc = "coder" /\ Idle(a)) =>
           LET h == eventHistory(events[fl[a].task]) IN
             /\ h # <<>>
             /\ h[Len(h)] = [agent |-> ReviewerName, type |-> "reviewed",
                             content |-> "REJECTED"]

\* The coder is about to be called in the iteration that follows a REJECT.
C25_Witness ==
  /\ fl[AutoProc].out = "REJECT" /\ fl[AutoProc].pc = "coder" /\ Idle(AutoProc)
  /\ fl[AutoProc].iter = 2
  /\ tasks[fl[AutoProc].task].status = StatusInProgress

\* C26: when hive answer has unblocked a task (any answer but skip) and has
\* not yet gone on to the architect or the coder, the task is in backlog
\* with an empty blocked_reason, and the command has written one row: the
\* unblocked event of the user with the answer, queued or last in the log.
C26_AnswerUnblocks ==
  fl[AnswerProc].pc = "arch" =>
    LET id == fl[AnswerProc].task
        row == [agent |-> "user", type |-> "unblocked", content |-> "answer"]
    IN /\ tasks[id].status = StatusBacklog
       /\ tasks[id].blocked_reason = ""
       /\ \/ pend[AnswerProc] = <<UnblockTaskEvent(id, "answer")>>
          \/ /\ pend[AnswerProc] = <<>>
             /\ events[id] # <<>>
             /\ events[id][Len(events[id])] = row
             /\ Cardinality({k \in DOMAIN events[id] : events[id][k] = row}) = 1

\* The answer to a task the coder had blocked is in the log.
C26_Witness ==
  /\ fl[AnswerProc].pc = "arch" /\ Idle(AnswerProc)
  /\ \E k \in DOMAIN events[fl[AnswerProc].task] :
       events[fl[AnswerProc].task][k].type = "blocked"
  /\ events[fl[AnswerProc].task][Len(events[fl[AnswerProc].task])].type = "unblocked"
  /\ tasks[fl[AnswerProc].task].status = StatusBacklog

\* C27: while hive answer runs with an architect configured, the coder is
\* called only for a task whose log holds an architect_spec event: the
\* architect has run first and has not blocked; and a command that ended
\* on the architect's question has not called the coder.
C27_ArchitectBeforeCoder ==
  LET f == fl[AnswerProc] IN
    /\ (cfg.arch /\ (f.coderCalls > 0 \/ f.pc \in {"coder", "once_run"}))
         => hasArchSpec(f.task)
    /\ (f.pc = "ret" /\ f.out = "blocked" /\ f.fn = "") => f.coderCalls = 0

\* The coder has run in hive answer after the architect wrote its spec in
\* the same command.
C27_Witness ==
  /\ cfg.arch /\ fl[AnswerProc].coderCalls > 0
  /\ hasArchSpec(fl[AnswerProc].task)
  /\ \E k \in DOMAIN artifacts[fl[AnswerProc].task] :
       artifacts[fl[AnswerProc].task][k] = "architect"

\* C28: once the pool has returned, none of the worktrees it created is
\* left, whatever the results of their tasks were.
C28_WorktreesRemoved ==
  auto.pc \in {"summary", "finish", "exit"} => auto.worktrees = {}

\* The pool has returned after creating and removing a worktree for every
\* task, with a done, a blocked and a failed task among them.
C28_Witness ==
  /\ auto.pc = "summary" /\ auto.removed = PoolTasks
  /\ auto.completed > 0 /\ auto.blocked > 0 /\ auto.failed > 0

\* C29: a task whose merge into the epic branch failed keeps the result
\* done and the status done in the Store, and the log of its result holds
\* the "merge failed" line.
C29_MergeFailureKeepsDone ==
  \A m \in auto.merges :
    m.err => /\ m.status = "done"
             /\ tasks[m.task].status = StatusDone
             /\ m.line = "merge failed"

\* The pool has returned with a task whose merge failed.
C29_Witness ==
  /\ auto.pc = "summary" /\ auto.completed > 0
  /\ \E m \in auto.merges : m.err /\ m.task \notin auto.worktrees

\* ------------------------------------------------ a failing Store write
\* AddEvent while the pipeline writes: db.Exec returns an error, AddEvent
\* drops it (it has no return value), the row is not written and the
\* caller goes on.
AddEventFails ==
  /\ pend[AutoProc] # <<>> /\ Head(pend[AutoProc]).tbl = "events"
  /\ pend' = [pend EXCEPT ![AutoProc] = Tail(@)]
  /\ UNCHANGED <<tasks, events, artifacts, reviews, pipeline_runs, cfg, auto,
                 fl, usr, sem, results, runsLeft, cmdsLeft>>

\* One `hive auto` on items created by hand, with INSERTs into events that
\* can fail.
NextStoreErr ==
  \/ Create
  \/ runEpicCreateBranch
  \/ \E id \in Ids, skipPlan \in BOOLEAN : runAutoCmd(id, skipPlan, 1, 1)
  \/ Pipeline
  \/ AddEventFails
  \/ \E a \in Actors : Flush(a)

SpecStoreErr == Init /\ [][NextStoreErr]_vars

\* C30: a Store write that fails in the pipeline aborts the action with
\* nothing of it written: whenever no write is in flight, the status of
\* every item is the status its event log records.
C30_NoPartialStateAfterFailedWrite ==
  (\A a \in Actors : Idle(a)) =>
    \A i \in Ids : LoggedStatus(events[i]) = tasks[i].status

\* C31: no step changes the git_branch of an item whose git_branch is set.
C31_GitBranchImmutable ==
  [][\A i \in Ids :
       tasks[i].git_branch # "" => tasks'[i].git_branch = tasks[i].git_branch]_vars

\* hive auto has recorded the branch of an epic that had none, beside an
\* epic whose branch was set when it was created.
C31_Witness ==
  /\ auto.pc = "startrun" /\ auto.id = 2
  /\ tasks[2].git_branch = "hive/epic-2"
  /\ tasks[1].git_branch = "hive/epic-1"

\* C32: every epic has no parent (parent_id null, here 0) and every task has
\* a parent_id that is the id of an existing epic.
C32_ParentIsEpic ==
  \A i \in Ids :
    /\ tasks[i].kind = KindEpic => tasks[i].parent_id = 0
    /\ tasks[i].kind = KindTask =>
         /\ tasks[i].parent_id \in Ids
         /\ tasks[tasks[i].parent_id].kind = KindEpic

\* ---- ParseReview: the verdict of a review output ----

\* strings.ToUpper(output), phrase by phrase.
ToUpper(out) ==
  {IF p = "lgtm" THEN "LGTM"
   ELSE IF p = "looks fine to me" THEN "LOOKS FINE TO ME" ELSE p : p \in out}

\* strings.Contains(upperOutput, signal).
Contains(upperOutput, signal) ==
  \E p \in upperOutput :
    \/ p = signal
    \/ <<p, signal>> \in {<<"NOT APPROVED", "APPROVED">>,
                          <<"CHANGES REJECTED", "REJECTED">>}

\* inferVerdict: the number of approve signals the output contains.
approveScore(upperOutput) ==
  Cardinality({s \in {"LGTM", "LOOKS GOOD", "I APPROVE", "APPROVED",
                      "CHANGES ARE GOOD", "CHANGES LOOK GOOD",
                      "NO ISSUES FOUND", "NO PROBLEMS FOUND",
                      "SHIP IT", "READY TO MERGE"} :
                 Contains(upperOutput, s)})

\* inferVerdict: the number of reject signals the output contains.
rejectScore(upperOutput) ==
  Cardinality({s \in {"I REJECT", "REJECTED", "CHANGES REJECTED",
                      "MUST BE FIXED", "NEEDS FIXING", "CRITICAL ISSUE",
                      "NOT APPROVED", "DO NOT MERGE", "CANNOT APPROVE",
                      "VULNERABILITY", "SECURITY ISSUE", "BUG FOUND",
                      "HAS NOT BEEN FIXED", "NOT BEEN FIXED",
                      "STILL VULNERABLE"} :
                 Contains(upperOutput, s)})

\* inferVerdict with a tie going to APPROVE.
inferVerdictApproveTies(upperOutput) ==
  IF approveScore(upperOutput) > 0
       /\ approveScore(upperOutput) >= rejectScore(upperOutput)
  THEN "APPROVE"
  ELSE IF rejectScore(upperOutput) > 0 THEN "REJECT" ELSE ""

\* inferVerdict: REJECT first, then APPROVE, else ambiguous.
inferVerdict(upperOutput) ==
  IF rejectScore(upperOutput) > 0
       /\ rejectScore(upperOutput) >= approveScore(upperOutput)
  THEN "REJECT"
  ELSE IF approveScore(upperOutput) > 0
            /\ approveScore(upperOutput) > rejectScore(upperOutput)
       THEN "APPROVE"
       ELSE ""

\* ParseReview: pass 1 reads the VERDICT line, pass 2 infers when pass 1
\* found no verdict.
ParseReview(line, out) ==
  LET pass1 == IF line \in {"APPROVE", "ACCEPT"} THEN "APPROVE"
               ELSE IF line \in {"REJECT", "FAIL"} THEN "REJECT" ELSE ""
  IN IF pass1 = "" THEN inferVerdict(ToUpper(out)) ELSE pass1

\* A review output waiting to be parsed: what follows the colon of its
\* VERDICT line ("none": the output has no such line) and the texts it is
\* made of.
InitVerdict ==
  /\ tasks = <<>>
  /\ events = [i \in ItemIds |-> <<>>]
  /\ artifacts = [i \in ItemIds |-> <<>>]
  /\ reviews = [i \in ItemIds |-> <<>>]
  /\ pipeline_runs = <<>>
  /\ pend = [a \in Actors |-> <<>>]
  /\ cfg = NoConfig
  /\ auto = NoAuto
  /\ fl = [a \in FixActors |-> NoLoop]
  /\ \E line \in {"none", "APPROVE", "ACCEPT", "REJECT", "FAIL", "UNCLEAR"},
        out \in SUBSET {"LGTM", "lgtm", "NOT APPROVED", "CHANGES REJECTED",
                        "VULNERABILITY", "looks fine to me"} :
       usr = [pc |-> "review", line |-> line, out |-> out, Verdict |-> ""]
  /\ sem = 0
  /\ results = <<>>
  /\ runsLeft = MaxRuns
  /\ cmdsLeft = MaxCmds

NextVerdict ==
  /\ usr.pc = "review"
  /\ usr' = [usr EXCEPT !.pc = "parsed",
                        !.Verdict = ParseReview(usr.line, usr.out)]
  /\ UNCHANGED <<tasks, events, artifacts, reviews, pipeline_runs, pend, cfg,
                 auto, fl, sem, results, runsLeft, cmdsLeft>>

SpecVerdict == InitVerdict /\ [][NextVerdict]_vars

\* C33: for a parsed output with no explicit verdict line the verdict is
\* REJECT exactly when reject_score >= 1 and reject_score >= approve_score,
\* APPROVE exactly when approve_score >= 1 and approve_score > reject_score,
\* and empty otherwise.
C33_InferredVerdict ==
  (usr.pc = "parsed" /\ usr.line = "none") =>
    LET a == approveScore(ToUpper(usr.out))
        r == rejectScore(ToUpper(usr.out))
    IN /\ usr.Verdict = "REJECT" <=> (r >= 1 /\ r >= a)
       /\ usr.Verdict = "APPROVE" <=> (a >= 1 /\ a > r)
       /\ usr.Verdict = "" <=> ~(r >= 1 /\ r >= a) /\ ~(a >= 1 /\ a > r)

\* A tie between one approve and one reject signal was parsed as REJECT.
C33_Witness ==
  /\ usr.pc = "parsed" /\ usr.line = "none"
  /\ approveScore(ToUpper(usr.out)) = 1
  /\ rejectScore(ToUpper(usr.out)) = 1
  /\ usr.Verdict = "REJECT"

\* ---- commands given in a second terminal ----

\* hive auto <id> --skip-plan started while the coder of a hive answer
\* command is at work: nothing in runAuto looks at other processes.  Both
\* commands read the same configuration file.
runAutoMeanwhile(id) ==
  /\ auto.pc = "idle" /\ Idle(AnswerProc)
  /\ fl[AnswerProc].pc \in {"coder", "once_run"}
  /\ runsLeft > 0 /\ id \in Ids
  /\ auto' = [NoAuto EXCEPT !.pc = "begin", !.id = id, !.skipPlan = TRUE,
                            !.maxLoops = 1, !.parallel = 1]
  /\ runsLeft' = runsLeft - 1
  /\ UNCHANGED <<tasks, events, artifacts, reviews, pipeline_runs, pend, cfg,
                 fl, usr, sem, results, cmdsLeft>>

\* hive answer <id> skip given in a terminal while the TUI's resolve popup
\* is open: the two are separate processes on the same database.
runAnswerMeanwhile(id) ==
  /\ usr.pc = "popup" /\ auto.pc = "idle" /\ fl[AnswerProc].pc = "off"
  /\ \A a \in Actors : Idle(a)
  /\ runsLeft > 0
  /\ id \in Ids /\ tasks[id].status = StatusBlocked
  /\ tasks' = UpdateTaskStatusRow(tasks, id, StatusCancelled)
  /\ Enqueue(AnswerProc, <<UpdateTaskStatusEvent(id, StatusCancelled),
                           AddEvent(id, "user", "cancelled", "skipped")>>)
  /\ runsLeft' = runsLeft - 1
  /\ UNCHANGED <<events, artifacts, reviews, pipeline_runs, cfg, auto, fl,
                 usr, sem, results, cmdsLeft>>

\* An epic and its task have been created and the task has been blocked by
\* hand (hive task block).
InitRace ==
  /\ tasks = BlockTaskRow(<<NewRow(KindEpic, 0), NewRow(KindTask, 1)>>, 2, Question)
  /\ events = [i \in ItemIds |->
                 IF i = 1
                 THEN <<[agent |-> "", type |-> "created", content |-> "created"]>>
                 ELSE IF i = 2
                 THEN <<[agent |-> "", type |-> "created", content |-> "created"],
                        [agent |-> "", type |-> "blocked", content |-> Question]>>
                 ELSE <<>>]
  /\ artifacts = [i \in ItemIds |-> <<>>]
  /\ reviews = [i \in ItemIds |-> <<>>]
  /\ pipeline_runs = <<>>
  /\ pend = [a \in Actors |-> <<>>]
  /\ cfg = NoConfig
  /\ auto = NoAuto
  /\ fl = [a \in FixActors |-> NoLoop]
  /\ usr = NoCmd
  /\ sem = 0
  /\ results = <<>>
  /\ runsLeft = MaxRuns
  /\ cmdsLeft = MaxCmds

NextRace ==
  \/ \E id \in Ids : runAnswer(id, FALSE, 1)
  \/ \E id \in Ids : runAutoMeanwhile(id)
  \/ \E id \in Ids : handleEpicKey(id)
  \/ \E id \in Ids : runAnswerMeanwhile(id)
  \/ handleResolvePopup
  \/ runAutoBegin
  \/ runAutoStartRun
  \/ runAutoPlan
  \/ runAutoAssign
  \/ runAutoWork
  \/ runAutoTally
  \/ runAutoSummary
  \/ runAutoFinish
  \/ runAutoExit
  \/ FixLoop(AutoProc)
  \/ Answer
  \/ \E a \in Actors : Flush(a)

SpecRace == InitRace /\ [][NextRace]_vars

\* C34: no task is being executed by two fix loops at the same time.
C34_OneFixLoopPerTask ==
  \A a, b \in FixActors :
    (a # b /\ fl[a].pc # "off" /\ fl[b].pc # "off") => fl[a].task # fl[b].task

\* C35: when runAuto returns, the PipelineRun it started is no longer in
\* status running, whatever other run was started on the epic meanwhile.
C35_ReturnedRunIsEnded ==
  [][/\ (auto.pc = "exit" /\ auto'.pc = "idle" /\ auto.runID > 0) =>
          pipeline_runs'[auto.runID].status # "running"
     /\ (usr.pc = "auto" /\ usr'.pc = "idle" /\ usr.runID > 0) =>
          pipeline_runs'[usr.runID].status # "running"]_vars

\* C36: with a reviewer configured, a step of an automated flow (not a
\* command of the user) that writes status done to a task is the APPROVE
\* case of a fix loop on that task, right after its reviewer answered.
C36_DoneOnlyAfterApprove ==
  [][\A i \in Ids :
       (/\ cfg.reviewer /\ cmdsLeft' = cmdsLeft
        /\ tasks[i].status # StatusDone /\ tasks'[i].status = StatusDone) =>
         \E a \in FixActors :
           /\ fl[a].task = i /\ fl[a].pc = "verdict" /\ fl[a].out = "APPROVE"
           /\ fl[a].reviewerCalls > 0]_vars

\* ---- agent.NewRunner fails ----

\* autoFixLoop / runCoderOnce: agent.NewRunner returns an error (an api
\* agent whose API key variable is not set, or no coder configured: the
\* zero config.Agent has no mode), and the function returns "failed"
\* before its first UPDATE.
NewRunnerFails(a) ==
  /\ fl[a].pc \in {"iter", "once"} /\ fl[a].iter <= 1 /\ Idle(a)
  /\ fl[a].coderCalls = 0 /\ fl[a].reviewerCalls = 0
  /\ fl' = [fl EXCEPT ![a].pc = "ret", ![a].result = "failed"]
  /\ UNCHANGED <<tasks, events, artifacts, reviews, pipeline_runs, pend, cfg,
                 auto, usr, sem, results, runsLeft, cmdsLeft>>

\* One `hive auto` on items created by hand, with agents that may fail to
\* be constructed.
NextRunnerErr ==
  \/ Create
  \/ \E id \in Ids, skipPlan \in BOOLEAN : runAutoCmd(id, skipPlan, 1, 1)
  \/ Pipeline
  \/ NewRunnerFails(AutoProc)
  \/ \E a \in Actors : Flush(a)

SpecRunnerErr == Init /\ [][NextRunnerErr]_vars

\* C37: when a fix loop has returned done, blocked or failed for a task,
\* its writes are in the Store and no other actor is at work on the task,
\* the task's stored status is the outcome it returned.
C37_StoredStatusIsOutcome ==
  \A a \in FixActors :
    (/\ Returned(a)
     /\ fl[a].result \in {"done", "blocked", "failed"}
     /\ \A b \in FixActors \ {a} : fl[b].task # fl[a].task) =>
      tasks[fl[a].task].status = fl[a].result

\* C38: while Pool.Run is at work some step is always possible and every
\* taken slot is held by a goroutine that has not finished (so no send on
\* the semaphore waits for ever); once Run has returned, every goroutine
\* has finished and every slot is free.
C38_PoolReturnsWithFreeSlots ==
  /\ auto.pc = "pool" =>
       /\ ENABLED NextPool
       /\ sem = Cardinality({w \in Workers : fl[w].pc # "off"})
  /\ auto.pc \in {"summary", "finish", "exit"} =>
       /\ sem = 0
       /\ \A w \in Workers : fl[w].pc = "off"

\* Run has returned from a pool of more tasks than slots, all of them
\* executed to done.
C38_Witness ==
  /\ auto.pc = "summary" /\ UsePool
  /\ Len(auto.subtasks) > auto.parallel
  /\ auto.completed = Len(auto.subtasks)
  /\ \A k \in DOMAIN auto.subtasks : auto.subtasks[k].Status = StatusBacklog
  /\ sem = 0

\* C39: a step that unblocks a task (it writes the task's unblocked event)
\* leaves the status of a task that is not blocked as it was.
C39_UnblockOnlyBlocked ==
  [][\A a \in Actors, i \in Ids :
       (/\ tasks[i].status # StatusBlocked
        /\ \E k \in DOMAIN pend'[a] :
             /\ k > Len(pend[a])
             /\ pend'[a][k].type = "unblocked" /\ pend'[a][k].id = i) =>
         tasks'[i].status = tasks[i].status]_vars

\* ---- Pool.Run called directly ----

\* A runSequential that keeps only its latest result.
runSequentialKeepsLast ==
  /\ auto.pc = "seq" /\ auto.i <= Len(auto.subtasks)
  /\ LET w == WorkerName(auto.i) IN
     IF fl[w].pc = "off"
     THEN /\ fl' = [fl EXCEPT ![w] = EnterLoop("executeTask", auto.subtasks[auto.i].ID,
                                               auto.maxLoops)]
          /\ UNCHANGED <<auto, results>>
     ELSE /\ Returned(w)
          /\ fl' = [fl EXCEPT ![w] = NoLoop]
          /\ results' = <<fl[w].result>>
          /\ auto' = [auto EXCEPT !.i = @ + 1, !.resultIDs = <<fl[w].task>>]
  /\ UNCHANGED <<tasks, events, artifacts, reviews, pipeline_runs, pend, cfg,
                 usr, sem, runsLeft, cmdsLeft>>

\* runSequential: executeTask(task, p.workDir, false) for each task in turn,
\* whatever its status, and append of its result.
runSequential ==
  /\ auto.pc = "seq" /\ auto.i <= Len(auto.subtasks)
  /\ LET w == WorkerName(auto.i) IN
     IF fl[w].pc = "off"
     THEN /\ fl' = [fl EXCEPT ![w] = EnterLoop("executeTask", auto.subtasks[auto.i].ID,
                                               auto.maxLoops)]
          /\ UNCHANGED <<auto, results>>
     ELSE /\ Returned(w)
          /\ fl' = [fl EXCEPT ![w] = NoLoop]
          /\ results' = Append(results, fl[w].result)
          /\ auto' = [auto EXCEPT !.i = @ + 1, !.resultIDs = Append(@, fl[w].task)]
  /\ UNCHANGED <<tasks, events, artifacts, reviews, pipeline_runs, pend, cfg,
                 usr, sem, runsLeft, cmdsLeft>>

\* A Pool built by NewPool without worktrees, and Run called on the three
\* assigned tasks of an epic, the second of them backlog, done or blocked:
\* Run takes runSequential when maxWorkers <= 1 or there is at most one
\* task, else runParallel with its semaphore and results slice.
InitRun ==
  /\ \E st \in {StatusBacklog, StatusDone, StatusBlocked} :
       /\ tasks = [i \in 1..(PoolTasks + 1) |->
                     IF i = 1 THEN NewRow(KindEpic, 0)
                     ELSE [NewRow(KindTask, 1) EXCEPT
                             !.assigned_agent = CoderName,
                             !.status = IF i = 3 THEN st ELSE StatusBacklog,
                             !.blocked_reason =
                                IF i = 3 /\ st = StatusBlocked THEN Question ELSE ""]]
       /\ events = [i \in ItemIds |->
                      IF i > PoolTasks + 1 THEN <<>>
                      ELSE <<[agent |-> "", type |-> "created", content |-> "created"]>>
                           \o (IF i = 1 THEN <<>>
                               ELSE <<[agent |-> CoderName, type |-> "assigned",
                                       content |-> CoderName]>>)
                           \o (IF i # 3 \/ st = StatusBacklog THEN <<>>
                               ELSE IF st = StatusBlocked
                               THEN <<[agent |-> "", type |-> "blocked",
                                       content |-> Question]>>
                               ELSE <<[agent |-> "", type |-> "status_changed",
                                       content |-> StatusDone]>>)]
  /\ artifacts = [i \in ItemIds |-> <<>>]
  /\ reviews = [i \in ItemIds |-> <<>>]
  /\ pipeline_runs = <<>>
  /\ pend = [a \in Actors |-> <<>>]
  /\ \E reviewer \in BOOLEAN :
       cfg = [pm |-> FALSE, coder |-> TRUE, reviewer |-> reviewer, arch |-> FALSE]
  /\ \E maxWorkers \in 1..MaxWorkers, maxLoops \in 0..1 :
       /\ auto = [NoAuto EXCEPT
                    !.pc = IF maxWorkers <= 1 \/ PoolTasks <= 1 THEN "seq" ELSE "pool",
                    !.id = 1, !.kind = KindEpic, !.maxLoops = maxLoops,
                    !.parallel = maxWorkers, !.i = 1,
                    !.subtasks = Snapshots(tasks, [k \in 1..PoolTasks |-> k + 1]),
                    !.resultIDs = IF maxWorkers <= 1 \/ PoolTasks <= 1 THEN <<>>
                                  ELSE [k \in 1..PoolTasks |-> 0]]
       /\ results = IF maxWorkers <= 1 \/ PoolTasks <= 1 THEN <<>>
                    ELSE [k \in 1..PoolTasks |-> ""]
  /\ fl = [a \in FixActors |-> NoLoop]
  /\ usr = NoCmd
  /\ sem = 0
  /\ runsLeft = 0
  /\ cmdsLeft = 0

NextRun ==
  \/ runSequential
  \/ runParallel
  \/ \E i \in DOMAIN results : runParallelDone(i)
  \/ \E w \in Workers : FixLoop(w)
  \/ \E a \in Actors : Flush(a)

SpecRun == InitRun /\ [][NextRun]_vars

\* C40: when Pool.Run returns, from runSequential or from runParallel, it
\* returns one result for each input task and the result at index k carries
\* the ID of input task k.
C40_OneResultPerTask ==
  (\/ auto.pc = "seq" /\ auto.i > Len(auto.subtasks)
   \/ /\ auto.pc = "pool" /\ auto.i > Len(auto.subtasks)
      /\ \A w \in Workers : fl[w].pc = "off") =>
    /\ Len(results) = Len(auto.subtasks)
    /\ Len(auto.resultIDs) = Len(auto.subtasks)
    /\ \A k \in DOMAIN auto.subtasks :
         /\ results[k] \in {"done", "blocked", "failed"}
         /\ auto.resultIDs[k] = auto.subtasks[k].ID

\* runParallel has returned with the result of a task it skipped between
\* those of two tasks it executed.
C40_Witness ==
  /\ auto.pc = "pool" /\ auto.i > Len(auto.subtasks)
  /\ \A w \in Workers : fl[w].pc = "off"
  /\ auto.subtasks[2].Status = StatusBlocked
  /\ results = <<"done", "blocked", "failed">>
  /\ auto.resultIDs = <<2, 3, 4>>

====
